---------------------------- MODULE ConsoleProofs ----------------------------
(***************************************************************************)
(* What the console guarantees for any number of requests, sessions and    *)
(* orders, all operations mixed.  Tables only go forward (a deleted row    *)
(* stays deleted, orders are never taken away, what was won stays won), so *)
(* what a request has read or done stays true; ConsoleInv says what that   *)
(* is, request by request.                                                 *)
(***************************************************************************)
EXTENDS Console, FiniteSetTheorems, TLAPS

(***************************************************************************)
(* Operations, orders and pages                                            *)
(***************************************************************************)
\* The first component of an operation tells what the others are.
LEMMA OpShapes ==
  ASSUME NEW op \in Ops \cup {<<"login">>}
  PROVE  /\ op[1] = "page" => op[2] \in SizeAsked
         /\ op[1] \in {"create", "update", "delete", "list"} => op[2] \in Kinds
         /\ op[1] = "move" => op[2] \in 1 .. MaxOrders /\ op[3] \in 1 .. 3
                              /\ op = <<"move", op[2], op[3]>>
         /\ op[1] = "login" <=> op = <<"login">>
BY DEF Ops, RowOps, OrderOps, PageOps, ListOps

\* Orders are numbered from 1, without a gap.
Numbered ==
  /\ Cardinality(Orders) \in 2 .. MaxOrders /\ Cardinality(Orders) \in Nat
  /\ IsFiniteSet(Orders) /\ Orders = 1 .. Cardinality(Orders)
  /\ orders \in [1 .. Cardinality(Orders) -> [status : 0 .. 3, version : Nat]]

\* The orders are numbered from 1 in every state.
LEMMA OrdersCount == TablesOK => Numbered
<1> SUFFICES ASSUME TablesOK PROVE Numbered
  OBVIOUS
<1>1. PICK n \in 2 .. MaxOrders : orders \in [1 .. n -> [status : 0 .. 3, version : Nat]]
  BY DEF TablesOK
<1>2. n \in Nat /\ 1 <= n
  BY ConsoleAssumption
<1>3. Orders = 1 .. n
  BY <1>1 DEF Orders
<1>4. Cardinality(Orders) = n /\ IsFiniteSet(Orders)
  BY <1>2, <1>3, FS_Interval
<1> QED BY <1>1, <1>2, <1>3, <1>4 DEF Numbered

\* pageBounds: pages follow each other without a gap.
LEMMA Bounds ==
  ASSUME NEW m \in Nat \ {0}, NEW z \in Nat
  PROVE  /\ pageBounds(m, z).size \in Nat \ {0} /\ pageBounds(m, z).offset \in Nat
         /\ pageBounds(m + 1, z).size = pageBounds(m, z).size
         /\ pageBounds(m + 1, z).offset = pageBounds(m, z).offset + pageBounds(m, z).size
         /\ pageBounds(1, z).offset = 0
<1> DEFINE s == IF z < 1 \/ z > MaxSize THEN DefaultSize ELSE z
<1>1. s \in Nat \ {0}
  BY ConsoleAssumption
<1>2. /\ pageBounds(m, z) = [size |-> s, offset |-> (m - 1) * s]
      /\ pageBounds(m + 1, z) = [size |-> s, offset |-> ((m + 1) - 1) * s]
      /\ pageBounds(1, z) = [size |-> s, offset |-> (1 - 1) * s]
  BY DEF pageBounds
<1> HIDE DEF s
<1>3. (m - 1) * s \in Nat /\ ((m + 1) - 1) * s = (m - 1) * s + s /\ (1 - 1) * s = 0
  BY <1>1
<1> QED BY <1>1, <1>2, <1>3

\* WorkOrderPage shows the order with i newer ones in place i + 1, unless it is
\* one of those with equal times.
LEMMA ListedPlace ==
  ASSUME TablesOK, NEW swapped \in BOOLEAN, NEW i \in Orders
  PROVE  LET n == Cardinality(Orders) IN
         Listed(i, swapped) \in Orders /\ (i <= n - 2 => Listed(i, swapped) = n + 1 - i)
<1> DEFINE n == Cardinality(Orders)
<1>1. n \in 2 .. MaxOrders /\ Orders = 1 .. n
  BY OrdersCount DEF Numbered
<1>2. Listed(i, swapped) = IF swapped /\ i >= n - 1 THEN i + 2 - n ELSE n + 1 - i
  BY DEF Listed
<1>3. i \in Nat /\ n \in Nat /\ 1 <= i /\ i <= n /\ 2 <= n
  BY <1>1, ConsoleAssumption
<1>4. SUFFICES Listed(i, swapped) \in 1 .. n /\ (i <= n - 2 => Listed(i, swapped) = n + 1 - i)
  BY <1>1
<1> HIDE DEF n
<1>5. CASE swapped /\ i >= n - 1
  <2>1. Listed(i, swapped) = i + 2 - n
    BY <1>2, <1>5
  <2>2. i >= n - 1
    BY <1>5
  <2> QED BY <1>3, <2>1, <2>2
<1>6. CASE ~(swapped /\ i >= n - 1)
  <2>1. Listed(i, swapped) = n + 1 - i
    BY <1>2, <1>6
  <2> QED BY <1>3, <2>1
<1> QED BY <1>5, <1>6, Zenon

(***************************************************************************)
(* Requests that a step leaves alone                                       *)
(***************************************************************************)
\* No step takes back what was done.
Forward ==
  /\ \A k \in Kinds : rows[k].state # "absent" => rows'[k].state # "absent"
  /\ \A k \in Kinds : rows[k].state = "deleted" => rows'[k].state = "deleted"
  /\ Orders \subseteq Orders'
  /\ won \subseteq won'

\* More orders are a greater number of them.
LEMMA CountGrows ==
  ASSUME TablesOK, TablesOK', Orders \subseteq Orders'
  PROVE  Cardinality(Orders) <= Cardinality(Orders')
<1>1. Numbered /\ Numbered'
  BY OrdersCount, PTL
<1> QED BY <1>1, FS_Subset DEF Numbered

\* What was done stays done.
LEMMA DoneKept ==
  ASSUME TablesOK, TablesOK', Forward, NEW op \in Ops \cup {<<"login">>}, Done(op)
  PROVE  Done(op)'
<1>1. op[1] \in {"create", "update", "delete", "list"} => op[2] \in Kinds
  BY OpShapes
<1>2. Orders # Seeds => Orders' # Seeds
  <2>1. Numbered /\ Numbered'
    BY OrdersCount, PTL
  <2>2. {1, 2} \subseteq Orders
    BY <2>1 DEF Numbered
  <2> QED BY <2>1, <2>2 DEF Forward, Numbered, Seeds
<1> QED BY <1>1, <1>2 DEF Done, Forward

\* What is in a request, and what was said of it, keeps its meaning.
LEMMA OthersSound ==
  ASSUME ConsoleInv, TablesOK', Forward, NEW s \in Requests,
         \/ req'[s] = req[s]
         \/ req[s] # Idle /\ req'[s] = [req[s] EXCEPT !.over = TRUE]
  PROVE  Typed(s)' /\ Sound(s)'
<1> DEFINE q == req[s]
           p == q.page
           n == Cardinality(Orders)
           b == pageBounds(p.number, q.op[2])
<1>1. CASE req[s] = Idle
  <2>1. req'[s] = Idle
    BY <1>1
  <2> QED BY <2>1 DEF Typed, Sound
<1>2. CASE req[s] # Idle
  <2>1. q \in [pc : Running \cup {"answered", "log"}, token : Tokens,
               op : Ops \cup {<<"login">>}, over : BOOLEAN, page : Page(q.page.records)]
    BY <1>2 DEF ConsoleInv, TypeOK, Typed
  <2>2. /\ req'[s].pc = q.pc /\ req'[s].op = q.op /\ req'[s].token = q.token
        /\ req'[s].page = p
    BY <2>1
  <2>3. Typed(s)'
    BY <2>1 DEF Typed
  <2>4. Sound(s)
    BY DEF ConsoleInv
  <2>5. q.op # <<"login">> => PermittedRole(q.token, q.op)
    BY <1>2, <2>4 DEF Sound
  <2>6. q.pc = "log" => Done(q.op)'
    <3> SUFFICES ASSUME q.pc = "log" PROVE Done(req[s].op)'
      BY <2>2 DEF Done
    <3>1. PICK op \in Ops \cup {<<"login">>} : op = q.op
      BY <2>1
    <3>2. Done(op)
      BY <1>2, <2>4, <3>1 DEF Sound
    <3>3. Done(op)'
      BY <3>2, DoneKept DEF ConsoleInv, TypeOK
    <3> QED BY <2>2, <3>1, <3>3 DEF Done
  <2>7. q.op[1] = "page" => PageRead(req[s])'
    <3> SUFFICES ASSUME q.op[1] = "page" PROVE PageRead(req[s])'
      OBVIOUS
    <3>1. PageRead(q)
      BY <1>2, <2>4 DEF Sound
    <3>2. Numbered /\ Numbered' /\ Cardinality(Orders) <= Cardinality(Orders')
      BY OrdersCount, CountGrows, PTL DEF ConsoleInv, TypeOK, Forward
    <3>3. p.number \in Nat \ {0} /\ q.op[2] \in Nat /\ p.start \subseteq Nat
      BY <2>1, OpShapes, ConsoleAssumption DEF Page
    <3>4. b.offset \in Nat /\ b.size \in Nat
      BY <3>3, Bounds
    <3>5. ASSUME NEW x \in Nat, Swept(p, x)
          PROVE  \A o \in p.start \ Seeds : Cardinality(Orders') + 1 - o <= x => o \in p.shown
      <4>1. \A o \in p.start : Cardinality(Orders') + 1 - o <= x => Cardinality(Orders) + 1 - o <= x
        BY <3>2, <3>3 DEF Numbered
      <4> QED BY <3>5, <4>1 DEF Swept
    <3>6. p.records # {} /\ q.pc = "count" /\ b.offset + Cardinality(p.records) <= Cardinality(Orders) =>
            b.offset + Cardinality(p.records) <= Cardinality(Orders')
      <4>1. q.pc = "count" => p.records \subseteq Orders
        BY <3>1 DEF PageRead
      <4>2. q.pc = "count" => Cardinality(p.records) \in Nat
        BY <3>2, <4>1, FS_Subset, FS_CardinalityType DEF Numbered
      <4> QED BY <3>2, <3>4, <4>2 DEF Numbered
    <3>7. b.offset + b.size \in Nat /\ Orders \subseteq Orders'
      BY <3>4 DEF Forward
    <3>8. /\ p.start \subseteq Orders
          /\ q.pc = "act" => Swept(p, b.offset)
          /\ q.pc \in {"count", "answered"} =>
               /\ p.records \subseteq Orders
               /\ Swept(p, b.offset + b.size)
               /\ p.records = {} => p.start \ Seeds \subseteq p.shown
               /\ p.records # {} => b.offset + Cardinality(p.records) <=
                                     IF q.pc = "count" THEN Cardinality(Orders) ELSE p.total
      BY <3>1 DEF PageRead
    <3>9. b' = b
      BY <2>2 DEF pageBounds
    <3> HIDE DEF b
    <3> QED BY <2>2, <3>4, <3>5, <3>6, <3>7, <3>8, <3>9 DEF PageRead, Swept, b
  <2>8. q.op[1] = "list" => ListRead(req[s])'
    <3> SUFFICES ASSUME q.op[1] = "list" PROVE ListRead(req[s])'
      OBVIOUS
    <3>1. ListRead(q)
      BY <1>2, <2>4 DEF Sound
    <3>2. q.op[2] \in Kinds /\ Gone \subseteq Gone'
      BY <2>1, OpShapes DEF Forward, Gone
    <3> QED BY <2>2, <3>1, <3>2 DEF ListRead, Forward
  <2> QED BY <2>2, <2>3, <2>5, <2>6, <2>7, <2>8 DEF Sound, PermittedRole
<1> QED BY <1>1, <1>2

\* A step that changes one request and no table keeps the invariant when the
\* request is in order by itself, and disturbs no login.
LEMMA RequestStep ==
  ASSUME ConsoleInv, NEW r \in Requests,
         UNCHANGED <<active, sessions, rows, orders, log, won, twice>>,
         DOMAIN req' = Requests, \A s \in Requests \ {r} : req'[s] = req[s],
         Typed(r)', Sound(r)',
         req'[r].pc \in {"act", "count"}
           /\ (sessions[req'[r].token] # "live" \/ UserOf[req'[r].token] \notin active) => req'[r].over,
         req'[r].pc = "insert" =>
           /\ req'[r].op = <<"login">> /\ sessions[req'[r].token] = "none"
           /\ \A s \in Requests \ {r} : req[s] # Idle => req[s].token # req'[r].token,
         \A s \in Requests \ {r} :
           req[s].pc = "insert" /\ req'[r] # Idle => req'[r].token # req[s].token
  PROVE  ConsoleInv'
<1>1. TablesOK' /\ Forward
  BY DEF ConsoleInv, TypeOK, TablesOK, Forward, Orders
<1>2. \A s \in Requests : Typed(s)' /\ Sound(s)'
  BY <1>1, OthersSound
<1>3. TypeOK'
  BY <1>1, <1>2 DEF TypeOK
<1>4. InFlightOnly'
  BY DEF ConsoleInv, InFlightOnly, Me
<1>5. LoginFresh'
  <2> SUFFICES ASSUME NEW x \in Requests, req'[x].pc = "insert"
               PROVE  /\ req'[x].op = <<"login">> /\ sessions[req'[x].token] = "none"
                      /\ \A s \in Requests \ {x} : req'[s] # Idle => req'[s].token # req'[x].token
    BY DEF LoginFresh
  <2>1. CASE x = r
    BY <2>1
  <2>2. CASE x # r
    <3>1. req'[x] = req[x]
      BY <2>2
    <3>2. /\ req[x].op = <<"login">> /\ sessions[req[x].token] = "none"
          /\ \A s \in Requests \ {x} : req[s] # Idle => req[s].token # req[x].token
      BY <3>1 DEF ConsoleInv, LoginFresh
    <3> QED BY <2>2, <3>1, <3>2
  <2> QED BY <2>1, <2>2
<1>6. WonForGood' /\ Settled'
  <2>1. WonForGood' /\ OneWinner'
    BY DEF ConsoleInv, WonForGood, Settled, OneWinner, Orders
  <2>2. OrderPath' <=> OrderPath
    BY DEF OrderPath, Orders
  <2>3. LogTrue' <=> LogTrue
    BY DEF LogTrue, Done, Orders
  <2> QED BY <2>1, <2>2, <2>3 DEF ConsoleInv, Settled
<1> QED BY <1>2, <1>3, <1>4, <1>5, <1>6 DEF ConsoleInv

\* Initially nothing has happened.
LEMMA ConsoleInit == Init => ConsoleInv
<1> SUFFICES ASSUME Init PROVE ConsoleInv
  OBVIOUS
<1> USE DEF Init
<1>0. Orders = {1, 2} /\ {1, 2} = 1 .. 2
  BY DEF Orders, Seeds
<1>1. TablesOK
  <2>1. orders \in [1 .. 2 -> [status : 0 .. 3, version : Nat]]
    BY <1>0 DEF Seeds
  <2>2. 2 \in 2 .. MaxOrders
    BY ConsoleAssumption
  <2>3. log \subseteq Users \X Ops
    OBVIOUS
  <2>4. \E n \in 2 .. MaxOrders : orders \in [1 .. n -> [status : 0 .. 3, version : Nat]]
    BY <2>1, <2>2
  <2> QED BY <2>3, <2>4 DEF TablesOK
<1>2. \A r \in Requests : req[r] = Idle /\ req[r].pc = "idle"
  BY DEF Idle
<1>3. TypeOK /\ \A r \in Requests : Sound(r)
  BY <1>1, <1>2 DEF TypeOK, Typed, Sound
<1>4. InFlightOnly /\ LoginFresh /\ WonForGood
  BY <1>2 DEF InFlightOnly, LoginFresh, WonForGood
<1>5. OrderPath
  <2> SUFFICES ASSUME NEW o \in Orders
               PROVE  LET first == IF o \in Seeds THEN o - 1 ELSE 0
                          moved == {next \in 1 .. 3 : <<"move", o, next>> \in won} IN
                      /\ orders[o].version = 1 + Cardinality(moved)
                      /\ <<first, orders[o].status, moved>> \in Paths
    BY DEF OrderPath
  <2>1. {next \in 1 .. 3 : <<"move", o, next>> \in won} = {}
    OBVIOUS
  <2>2. orders[o] = [status |-> o - 1, version |-> 1] /\ o \in Seeds
    BY <1>0 DEF Seeds
  <2>3. o = 1 \/ o = 2
    BY <1>0
  <2> DEFINE moved == {next \in 1 .. 3 : <<"move", o, next>> \in won}
             first == IF o \in Seeds THEN o - 1 ELSE 0
  <2>4. orders[o].version = 1 + Cardinality(moved)
    <3>1. moved = {} /\ orders[o].version = 1 /\ Cardinality({}) = 0
      BY <2>1, <2>2, FS_EmptySet
    <3> HIDE DEF moved
    <3> QED BY <3>1
  <2>5. first = o - 1 /\ orders[o].status = o - 1 /\ moved = {}
    <3>1. first = o - 1 /\ orders[o].status = o - 1
      BY ONLY <2>2
    <3> QED BY <2>1, <3>1
  <2> HIDE DEF first, moved
  <2>6. <<first, orders[o].status, moved>> \in {<<0, 0, {}>>, <<1, 1, {}>>}
    BY <2>3, <2>5
  <2> QED BY <2>4, <2>6 DEF first, moved, Paths
<1>6. OneWinner /\ LogTrue
  BY DEF OneWinner, LogTrue, Done
<1> QED BY <1>3, <1>4, <1>5, <1>6 DEF ConsoleInv, Settled

(***************************************************************************)
(* Requests that are let in                                                *)
(***************************************************************************)
\* What a request consists of.
LEMMA Fields ==
  ASSUME ConsoleInv, NEW r \in Requests, req[r] # Idle
  PROVE  /\ req[r] \in [pc : Running \cup {"answered", "log"}, token : Tokens,
                        op : Ops \cup {<<"login">>}, over : BOOLEAN, page : Page(req[r].page.records)]
         /\ req[r].token \in Tokens /\ req[r].op \in Ops \cup {<<"login">>}
         /\ req[r].page \in Page(req[r].page.records)
         /\ req[r].page.number \in Nat \ {0} /\ req[r].page.start \in SUBSET Nat
         /\ req[r].page.shown \in SUBSET Nat /\ req[r].page.gone \in SUBSET Kinds
BY DEF ConsoleInv, TypeOK, Typed, Page

\* A request that goes on keeps its token, which no login is about to insert.
LEMMA LoginsApart ==
  ASSUME ConsoleInv, NEW r \in Requests, req[r] # Idle
  PROVE  \A s \in Requests \ {r} : req[s].pc = "insert" => req[r].token # req[s].token
BY DEF ConsoleInv, LoginFresh

\* A session that is live is not about to be inserted.
LEMMA LiveNotFresh ==
  ASSUME ConsoleInv, NEW t, sessions[t] = "live"
  PROVE  \A s \in Requests : req[s].pc = "insert" => t # req[s].token
BY DEF ConsoleInv, LoginFresh

\* Login: nobody else uses a session that is not there yet.
LEMMA LoginReadInv ==
  ASSUME ConsoleInv, NEW r \in Requests, NEW t \in Tokens, LoginRead(r, t)
  PROVE  ConsoleInv'
<1> DEFINE q == [pc |-> "insert", token |-> t, op |-> <<"login">>, over |-> FALSE, page |-> NoPage]
<1>1. /\ req[r] = Idle /\ sessions[t] = "none"
      /\ \A s \in Requests : req[s] # Idle => req[s].token # t
      /\ req' = [req EXCEPT ![r] = q]
      /\ UNCHANGED <<active, sessions, rows, orders, log, won, twice>>
  BY DEF LoginRead, Begin, NoRace
<1>2. DOMAIN req' = Requests /\ req'[r] = q /\ \A s \in Requests \ {r} : req'[s] = req[s]
  BY <1>1 DEF ConsoleInv, TypeOK
<1>3. Typed(r)'
  <2>1. NoPage \in Page(NoPage.records)
    BY DEF Page, NoPage
  <2>2. q \in [pc : Running \cup {"answered", "log"}, token : Tokens,
               op : Ops \cup {<<"login">>}, over : BOOLEAN, page : Page(q.page.records)]
    BY <2>1 DEF Running
  <2> QED BY <1>2, <2>2 DEF Typed
<1>4. Sound(r)'
  BY <1>2 DEF Sound
<1>5. \A s \in Requests \ {r} : req[s].pc = "insert" => t # req[s].token
  BY <1>1 DEF Idle
<1>6. req'[r].pc = "insert" /\ req'[r].op = <<"login">> /\ req'[r].token = t
  BY <1>2
<1> HIDE DEF q
<1> QED BY <1>1, <1>2, <1>3, <1>4, <1>5, <1>6, RequestStep

\* requireConsoleRole: who is let in has a live session, an active user and the role.
LEMMA AuthorizeInv ==
  ASSUME ConsoleInv, NEW r \in Requests, NEW t \in Tokens, NEW op \in Ops, Authorize(r, t, op)
  PROVE  ConsoleInv'
<1> DEFINE p == IF op[1] = "list" THEN [NoPage EXCEPT !.gone = Gone] ELSE NoPage
           q == [pc |-> "act", token |-> t, op |-> op, over |-> FALSE, page |-> p]
<1>1. /\ req[r] = Idle /\ sessions[t] = "live" /\ UserOf[t] \in active /\ PermittedRole(t, op)
      /\ req' = [req EXCEPT ![r] = q]
      /\ UNCHANGED <<active, sessions, rows, orders, log, won, twice>>
  BY DEF Authorize, UserBySession, Begin, NoRace
<1>2. DOMAIN req' = Requests /\ req'[r] = q /\ \A s \in Requests \ {r} : req'[s] = req[s]
  BY <1>1 DEF ConsoleInv, TypeOK
<1>3. /\ p \in Page(p.records) /\ p.start = {} /\ (op[1] = "list" => p.gone = Gone)
  BY DEF Page, NoPage, Gone
<1> HIDE DEF p
<1>4. Typed(r)'
  <2>1. q \in [pc : Running \cup {"answered", "log"}, token : Tokens,
               op : Ops \cup {<<"login">>}, over : BOOLEAN, page : Page(q.page.records)]
    BY <1>3 DEF Running
  <2> QED BY <1>2, <2>1 DEF Typed
<1>5. /\ req'[r].pc = "act" /\ req'[r].op = op /\ req'[r].token = t /\ req'[r].page = p
      /\ req'[r].over = FALSE
  BY <1>2
<1>6. Sound(r)'
  <2>1. PermittedRole(req[r].token, req[r].op)'
    BY <1>1, <1>5 DEF PermittedRole
  <2>2. PageRead(req[r])'
    BY <1>3, <1>5 DEF PageRead, Swept
  <2>3. op[1] = "list" => ListRead(req[r])'
    BY <1>1, <1>3, <1>5 DEF ListRead, Gone
  <2> QED BY <1>5, <2>1, <2>2, <2>3 DEF Sound
<1>7. \A s \in Requests : req[s].pc = "insert" => t # req[s].token
  BY <1>1, LiveNotFresh
<1> HIDE DEF q
<1> QED BY <1>1, <1>2, <1>4, <1>5, <1>6, <1>7, RequestStep

\* The next page begins where the last one ended.
LEMMA NextPageInv ==
  ASSUME ConsoleInv, NEW r \in Requests, NextPage(r)
  PROVE  ConsoleInv'
<1> DEFINE t == req[r].token
           op == req[r].op
           p == [req[r].page EXCEPT !.number = @ + 1]
           q == [pc |-> "act", token |-> t, op |-> op, over |-> FALSE, page |-> p]
<1>1. /\ req[r].pc = "answered" /\ op[1] = "page"
      /\ sessions[t] = "live" /\ UserOf[t] \in active /\ PermittedRole(t, op)
      /\ req' = [req EXCEPT ![r] = q]
      /\ UNCHANGED <<active, sessions, rows, orders, log, won, twice>>
  BY DEF NextPage, UserBySession, Begin, NoRace
<1>2. DOMAIN req' = Requests /\ req'[r] = q /\ \A s \in Requests \ {r} : req'[s] = req[s]
  BY <1>1 DEF ConsoleInv, TypeOK
<1>3. req[r] # Idle
  BY <1>1 DEF Idle
<1>4. t \in Tokens /\ op \in Ops \cup {<<"login">>} /\ req[r].page.number \in Nat \ {0}
      /\ req[r].page \in Page(req[r].page.records)
  BY <1>3, Fields
<1>5. /\ p \in Page(p.records) /\ p.start = req[r].page.start /\ p.shown = req[r].page.shown
      /\ p.number = req[r].page.number + 1
  BY <1>4 DEF Page
<1> HIDE DEF p
<1>6. Typed(r)'
  <2>1. q \in [pc : Running \cup {"answered", "log"}, token : Tokens,
               op : Ops \cup {<<"login">>}, over : BOOLEAN, page : Page(q.page.records)]
    BY <1>4, <1>5 DEF Running
  <2> QED BY <1>2, <2>1 DEF Typed
<1>7. /\ req'[r].pc = "act" /\ req'[r].op = op /\ req'[r].token = t /\ req'[r].page = p
      /\ req'[r].over = FALSE
  BY <1>2
<1>8. Sound(r)'
  <2>1. PermittedRole(req[r].token, req[r].op)'
    BY <1>1, <1>7 DEF PermittedRole
  <2>2. PageRead(req[r])'
    <3>1. op[2] \in Nat
      BY <1>1, <1>4, OpShapes, ConsoleAssumption
    <3>2. pageBounds(p.number, op[2]).offset =
            pageBounds(req[r].page.number, op[2]).offset + pageBounds(req[r].page.number, op[2]).size
      BY <3>1, <1>4, <1>5, Bounds
    <3>3. PageRead(req[r])
      BY <1>1, <1>3 DEF ConsoleInv, Sound
    <3>4. /\ p.start \subseteq Orders
          /\ \A o \in p.start \ Seeds :
               Cardinality(Orders) + 1 - o <= pageBounds(p.number, op[2]).offset => o \in p.shown
      BY <1>1, <1>5, <3>2, <3>3 DEF PageRead, Swept
    <3>5. pageBounds(req[r].page.number, req[r].op[2])' = pageBounds(p.number, op[2])
      BY <1>7 DEF pageBounds
    <3>6. Orders' = Orders
      BY <1>1 DEF Orders
    <3> QED BY <1>7, <3>4, <3>5, <3>6 DEF PageRead, Swept
  <2>3. op[1] # "list"
    BY <1>1
  <2> QED BY <1>7, <2>1, <2>2, <2>3 DEF Sound
<1>9. \A s \in Requests : req[s].pc = "insert" => t # req[s].token
  BY <1>1, LiveNotFresh
<1> HIDE DEF q
<1> QED BY <1>1, <1>2, <1>6, <1>7, <1>8, <1>9, RequestStep

\* A request that ends is no request.
LEMMA FailInv ==
  ASSUME ConsoleInv, NEW r \in Requests, Fail(r)
  PROVE  ConsoleInv'
<1>1. /\ req' = [req EXCEPT ![r] = Idle]
      /\ UNCHANGED <<active, sessions, rows, orders, log, won, twice>>
  BY DEF Fail, AnswerFailed, End, NoRace
<1>2. DOMAIN req' = Requests /\ req'[r] = Idle /\ \A s \in Requests \ {r} : req'[s] = req[s]
  BY <1>1 DEF ConsoleInv, TypeOK
<1>3. Typed(r)' /\ Sound(r)'
  BY <1>2 DEF Typed, Sound
<1>4. req'[r].pc = "idle"
  BY <1>2 DEF Idle
<1> QED BY <1>1, <1>2, <1>3, <1>4, RequestStep

(***************************************************************************)
(* Pages and lists                                                         *)
(***************************************************************************)
\* A request that has read goes on as it was, with another page.
LEMMA ReadStep ==
  ASSUME ConsoleInv, NEW r \in Requests, req[r] # Idle, NEW pc \in {"count", "answered"}, NEW p,
         p \in Page(p.records), req[r].pc \in {"act", "count"},
         req' = [req EXCEPT ![r] = [req[r] EXCEPT !.pc = pc, !.page = p]],
         UNCHANGED <<active, sessions, rows, orders, log, won, twice>>,
         req[r].op[1] = "page" => PageRead(req[r])',
         req[r].op[1] = "list" => ListRead(req[r])'
  PROVE  ConsoleInv'
<1>1. /\ DOMAIN req' = Requests /\ req'[r] = [req[r] EXCEPT !.pc = pc, !.page = p]
      /\ \A s \in Requests \ {r} : req'[s] = req[s]
  BY DEF ConsoleInv, TypeOK
<1>2. req[r] \in [pc : Running \cup {"answered", "log"}, token : Tokens,
                 op : Ops \cup {<<"login">>}, over : BOOLEAN, page : Page(req[r].page.records)]
  BY Fields
<1>3. /\ req'[r].pc = pc /\ req'[r].op = req[r].op /\ req'[r].token = req[r].token
      /\ req'[r].over = req[r].over /\ req'[r].page = p
  BY <1>1, <1>2
<1>4. Typed(r)'
  <2>1. req'[r] \in [pc : Running \cup {"answered", "log"}, token : Tokens,
                    op : Ops \cup {<<"login">>}, over : BOOLEAN, page : Page(p.records)]
    BY <1>1, <1>2 DEF Running
  <2> QED BY <1>3, <2>1 DEF Typed
<1>5. Sound(r)'
  <2>1. req[r].op # <<"login">> => PermittedRole(req[r].token, req[r].op)
    BY DEF ConsoleInv, Sound
  <2> QED BY <1>3, <2>1 DEF Sound, PermittedRole
<1>6. \A s \in Requests \ {r} : req[s].pc = "insert" => req[r].token # req[s].token
  BY LoginsApart
<1>7. sessions[req[r].token] # "live" \/ UserOf[req[r].token] \notin active => req[r].over
  BY DEF ConsoleInv, InFlightOnly, Me
<1> QED BY <1>1, <1>3, <1>4, <1>5, <1>6, <1>7, RequestStep

\* A list shows a row that is there and not deleted.
LEMMA ListRowsInv ==
  ASSUME ConsoleInv, NEW r \in Requests, NEW k \in Kinds, ListRows(r, k)
  PROVE  ConsoleInv'
<1> DEFINE p == [req[r].page EXCEPT !.records = RowsOf(k)]
<1>1. /\ req[r].pc = "act" /\ req[r].op = <<"list", k>>
      /\ UNCHANGED <<active, sessions, rows, orders, log, won, twice>>
  BY DEF ListRows, Acting, NoRace
<1>2. req[r] # Idle
  BY <1>1 DEF Idle
<1>3. req[r] \in [pc : Running \cup {"answered", "log"}, token : Tokens,
                 op : Ops \cup {<<"login">>}, over : BOOLEAN, page : Page(req[r].page.records)]
  BY <1>2, Fields
<1>4. p \in Page(p.records) /\ p.records = RowsOf(k) /\ p.gone = req[r].page.gone
  <2>1. req[r].page \in Page(req[r].page.records)
    BY <1>3
  <2> QED BY <2>1 DEF Page
<1>5. req' = [req EXCEPT ![r] = [req[r] EXCEPT !.pc = "count", !.page = p]]
  BY <1>3 DEF ListRows
<1>6. /\ req'[r].pc = "count" /\ req'[r].op = <<"list", k>> /\ req'[r].page = p
  BY <1>1, <1>3, <1>5 DEF ConsoleInv, TypeOK
<1> HIDE DEF p
<1>7. ListRead(req[r])'
  <2>1. ListRead(req[r])
    BY <1>1, <1>2 DEF ConsoleInv, Sound
  <2>2. p.gone \subseteq Gone /\ Gone' = Gone
    BY <1>1, <1>4, <2>1 DEF ListRead, Gone
  <2>3. p.records \subseteq {k} \ p.gone /\ \A x \in p.records : rows[x].state # "absent"
    BY <1>4, <2>2 DEF RowsOf, NotDeleted, Gone
  <2> QED BY <1>1, <1>6, <2>2, <2>3 DEF ListRead
<1>8. req[r].op[1] = "list"
  BY <1>1
<1> QED BY <1>1, <1>2, <1>4, <1>5, <1>7, <1>8, ReadStep

\* A page shows no more orders than there are places for from its offset on,
\* the ones of those places, and is empty only past the last order.
LEMMA Found ==
  ASSUME TablesOK, NEW offset \in Nat, NEW size \in Nat \ {0}, NEW swapped \in BOOLEAN
  PROVE  LET n == Cardinality(Orders)
             found == {Listed(i, swapped) : i \in (offset + 1 .. offset + size) \cap Orders} \cap Joined IN
         /\ found \subseteq Orders
         /\ \A o \in Orders \ Seeds : n + 1 - o > offset /\ n + 1 - o <= offset + size => o \in found
         /\ found = {} => n <= offset
         /\ found # {} => offset + Cardinality(found) <= n
<1> DEFINE n == Cardinality(Orders)
           I == (offset + 1 .. offset + size) \cap Orders
           found == {Listed(i, swapped) : i \in I} \cap Joined
           all == {Listed(i, swapped) : i \in I}
<1>1. n \in Nat /\ Orders = 1 .. n /\ IsFiniteSet(Orders)
  BY OrdersCount DEF Numbered
<1>2. \A i \in I : Listed(i, swapped) \in Orders /\ (i <= n - 2 => Listed(i, swapped) = n + 1 - i)
  BY ListedPlace
<1>3. found = all
  BY <1>2 DEF Joined
<1>4. found \subseteq Orders
  BY <1>2, <1>3
<1>5. ASSUME NEW o \in Orders \ Seeds, n + 1 - o > offset, n + 1 - o <= offset + size
      PROVE  o \in found
  <2>1. o \in 3 .. n
    BY <1>1 DEF Seeds
  <2> DEFINE i == n + 1 - o
  <2>2. i \in I /\ i <= n - 2 /\ n + 1 - i = o
    BY <1>1, <1>5, <2>1
  <2>3. Listed(i, swapped) = o
    BY <1>2, <2>2
  <2> HIDE DEF i, I
  <2> QED BY <1>3, <2>2, <2>3
<1>6. found = {} => n <= offset
  <2> SUFFICES ASSUME ~(n <= offset) PROVE found # {}
    OBVIOUS
  <2>1. offset + 1 \in I
    BY <1>1
  <2> HIDE DEF I
  <2> QED BY <1>3, <2>1
<1>7. found # {} => offset + Cardinality(found) <= n
  <2> SUFFICES ASSUME found # {} PROVE offset + Cardinality(found) <= n
    OBVIOUS
  <2>1. I \subseteq (offset + 1) .. n /\ I # {} /\ offset + 1 <= n
    BY <1>1
  <2>2. IsFiniteSet((offset + 1) .. n) /\ Cardinality((offset + 1) .. n) = n - offset
    BY <1>1, <2>1, FS_Interval
  <2>3. IsFiniteSet(I) /\ Cardinality(I) <= n - offset /\ Cardinality(I) \in Nat
    <3> HIDE DEF I
    <3> QED BY <2>1, <2>2, FS_Subset, FS_CardinalityType
  <2> DEFINE f == [i \in I |-> Listed(i, swapped)]
  <2>4. f \in Surjection(I, all)
    <3> HIDE DEF I
    <3> QED BY DEF Surjection
  <2>5. IsFiniteSet(all) /\ Cardinality(all) <= Cardinality(I) /\ Cardinality(all) \in Nat
    <3> HIDE DEF f, I, all
    <3> QED BY <2>3, <2>4, FS_Surjection, FS_CardinalityType
  <2> HIDE DEF found, all, I, n
  <2> QED BY <1>1, <1>3, <2>3, <2>5
<1> QED BY <1>4, <1>5, <1>6, <1>7

\* What WorkOrderPage reads goes on from what the client has seen.
LEMMA WorkOrderPageInv ==
  ASSUME ConsoleInv, NEW r \in Requests, NEW swapped \in BOOLEAN, WorkOrderPage(r, swapped)
  PROVE  ConsoleInv'
<1> DEFINE old == req[r].page
           b == pageBounds(old.number, req[r].op[2])
           found == {Listed(i, swapped) : i \in (b.offset + 1 .. b.offset + b.size) \cap Orders} \cap Joined
           p == [old EXCEPT !.records = found, !.shown = @ \cup found,
                            !.start = IF old.number = 1 THEN Orders ELSE @]
           n == Cardinality(Orders)
<1>1. /\ req[r].pc = "act" /\ req[r].op[1] = "page"
      /\ UNCHANGED <<active, sessions, rows, orders, log, won, twice>>
      /\ req' = [req EXCEPT ![r].pc = "count", ![r].page = p]
  BY DEF WorkOrderPage, ActingAny, NoRace
<1>2. req[r] # Idle
  BY <1>1 DEF Idle
<1>3. /\ req[r] \in [pc : Running \cup {"answered", "log"}, token : Tokens,
                     op : Ops \cup {<<"login">>}, over : BOOLEAN, page : Page(old.records)]
      /\ old \in Page(old.records) /\ old.number \in Nat \ {0} /\ old.start \in SUBSET Nat
      /\ old.shown \in SUBSET Nat
  BY <1>2, Fields
<1>4. TablesOK /\ n \in Nat /\ Orders = 1 .. n
  BY OrdersCount DEF ConsoleInv, TypeOK, Numbered
<1>5. req[r].op[2] \in Nat
  BY <1>1, <1>3, OpShapes, ConsoleAssumption
<1>6. b.offset \in Nat /\ b.size \in Nat \ {0} /\ (old.number = 1 => b.offset = 0)
  <2>1. pageBounds(1, req[r].op[2]).offset = 0 /\ b.offset \in Nat /\ b.size \in Nat \ {0}
    BY <1>3, <1>5, Bounds
  <2> QED BY <2>1
<1>7. /\ found \subseteq Orders
      /\ \A o \in Orders \ Seeds : n + 1 - o > b.offset /\ n + 1 - o <= b.offset + b.size => o \in found
      /\ found = {} => n <= b.offset
      /\ found # {} => b.offset + Cardinality(found) <= n
  <2> HIDE DEF b
  <2> QED BY <1>4, <1>6, Found
<1> HIDE DEF found, b
<1>8. /\ p \in Page(p.records) /\ p.records = found /\ p.shown = old.shown \cup found
      /\ p.start = (IF old.number = 1 THEN Orders ELSE old.start) /\ p.number = old.number
  <2>1. Orders \in SUBSET Nat /\ found \in SUBSET Nat
    BY <1>4, <1>7
  <2> QED BY <1>3, <2>1 DEF Page
<1> HIDE DEF p
<1>9. req' = [req EXCEPT ![r] = [req[r] EXCEPT !.pc = "count", !.page = p]]
  BY <1>1, <1>3
<1>10. req'[r].pc = "count" /\ req'[r].op = req[r].op /\ req'[r].page = p
  BY <1>3, <1>9 DEF ConsoleInv, TypeOK
<1>11. old.start \subseteq Orders /\ Swept(old, b.offset)
  <2>1. PageRead(req[r])
    BY <1>1, <1>2 DEF ConsoleInv, Sound
  <2> QED BY <1>1, <2>1 DEF PageRead, b
<1>12. p.start \subseteq Orders
  BY <1>8, <1>11
<1>13. ASSUME NEW o \in p.start \ Seeds, n + 1 - o <= b.offset + b.size PROVE o \in p.shown
  <2>1. o \in Orders \ Seeds /\ o \in 1 .. n
    BY <1>4, <1>12
  <2>2. CASE n + 1 - o > b.offset
    BY <1>7, <1>8, <1>13, <2>1, <2>2
  <2>3. CASE ~(n + 1 - o > b.offset)
    <3>1. n + 1 - o <= b.offset
      BY <1>4, <1>6, <2>1, <2>3
    <3>2. old.number # 1
      BY <1>4, <1>6, <2>1, <3>1
    <3> QED BY <1>8, <1>11, <3>1, <3>2 DEF Swept
  <2> QED BY <2>2, <2>3
<1>14. found = {} => p.start \ Seeds \subseteq p.shown
  <2> SUFFICES ASSUME found = {}, NEW o \in p.start \ Seeds PROVE o \in p.shown
    OBVIOUS
  <2>1. o \in 1 .. n /\ n <= b.offset
    BY <1>4, <1>7, <1>12
  <2>2. n + 1 - o <= b.offset + b.size
    BY <1>4, <1>6, <2>1
  <2> QED BY <1>13, <2>2
<1>15. PageRead(req[r])'
  <2>1. Orders' = Orders
    BY <1>1 DEF Orders
  <2>2. pageBounds(req[r].page.number, req[r].op[2])' = b
    BY <1>8, <1>10 DEF pageBounds, b
  <2> QED BY <1>7, <1>8, <1>10, <1>12, <1>13, <1>14, <2>1, <2>2 DEF PageRead, Swept
<1>16. req[r].op[1] # "list"
  BY <1>1
<1> QED BY <1>1, <1>2, <1>8, <1>9, <1>15, <1>16, ReadStep

\* The total is counted after the rows were read: no order is gone by then, and
\* a row only if it was deleted.
LEMMA CountPageInv ==
  ASSUME ConsoleInv, NEW r \in Requests, CountPage(r)
  PROVE  ConsoleInv'
<1> DEFINE old == req[r].page
           op == req[r].op
           p == [old EXCEPT !.total = Total(op)]
<1>1. /\ req[r].pc = "count"
      /\ UNCHANGED <<active, sessions, rows, orders, log, won, twice>>
      /\ req' = [req EXCEPT ![r].pc = "answered", ![r].page.total = Total(op)]
  BY DEF CountPage, NoRace
<1>2. req[r] # Idle
  BY <1>1 DEF Idle
<1>3. /\ req[r] \in [pc : Running \cup {"answered", "log"}, token : Tokens,
                     op : Ops \cup {<<"login">>}, over : BOOLEAN, page : Page(old.records)]
      /\ old \in Page(old.records) /\ op \in Ops \cup {<<"login">>}
  BY <1>2, Fields
<1>4. Numbered
  BY OrdersCount DEF ConsoleInv, TypeOK
<1>5. op[1] = "list" => Total(op) = IF NotDeleted(op[2]) THEN 1 ELSE 0
  <2> SUFFICES ASSUME op[1] = "list" PROVE Total(op) = IF NotDeleted(op[2]) THEN 1 ELSE 0
    OBVIOUS
  <2>1. Total(op) = Cardinality({k \in {op[2]} : NotDeleted(k)})
    BY DEF Total
  <2>2. CASE NotDeleted(op[2])
    <3>1. {k \in {op[2]} : NotDeleted(k)} = {op[2]}
      BY <2>2
    <3> QED BY <2>1, <2>2, <3>1, FS_Singleton
  <2>3. CASE ~NotDeleted(op[2])
    <3>1. {k \in {op[2]} : NotDeleted(k)} = {}
      BY <2>3
    <3> QED BY <2>1, <2>3, <3>1, FS_EmptySet
  <2> QED BY <2>2, <2>3
<1>6. op[1] # "list" => Total(op) = Cardinality(Orders)
  BY DEF Total
<1>7. Total(op) \in Nat
  BY <1>4, <1>5, <1>6 DEF Numbered
<1>8. /\ p \in Page(p.records) /\ p.records = old.records /\ p.shown = old.shown
      /\ p.start = old.start /\ p.number = old.number /\ p.gone = old.gone /\ p.total = Total(op)
  BY <1>3, <1>7 DEF Page
<1>9. req' = [req EXCEPT ![r] = [req[r] EXCEPT !.pc = "answered", !.page = p]]
  BY <1>1, <1>3
<1> HIDE DEF p
<1>10. req'[r].pc = "answered" /\ req'[r].op = op /\ req'[r].page = p
  BY <1>3, <1>9 DEF ConsoleInv, TypeOK
<1>11. Orders' = Orders /\ Gone' = Gone
  BY <1>1 DEF Orders, Gone
<1>12. op[1] = "page" => PageRead(req[r])'
  <2> SUFFICES ASSUME op[1] = "page" PROVE PageRead(req[r])'
    OBVIOUS
  <2>1. PageRead(req[r])
    BY <1>2 DEF ConsoleInv, Sound
  <2>2. pageBounds(req[r].page.number, req[r].op[2])' = pageBounds(old.number, op[2])
    BY <1>8, <1>10 DEF pageBounds
  <2>3. Total(op) = Cardinality(Orders)
    BY <1>6
  <2> QED BY <1>1, <1>8, <1>10, <1>11, <2>1, <2>2, <2>3 DEF PageRead, Swept
<1>13. op[1] = "list" => ListRead(req[r])'
  <2> SUFFICES ASSUME op[1] = "list" PROVE ListRead(req[r])'
    OBVIOUS
  <2>1. ListRead(req[r])
    BY <1>2 DEF ConsoleInv, Sound
  <2>2. op[2] \in Kinds
    BY <1>3, OpShapes
  <2>3. old.records \subseteq {op[2]} /\ \A k \in old.records : rows[k].state # "absent"
    BY <1>1, <2>1 DEF ListRead
  <2>4. Cardinality(p.records) > p.total => p.records \subseteq Gone
    <3>1. old.records = {} \/ old.records = {op[2]}
      BY <2>3
    <3>2. Cardinality({}) = 0 /\ Cardinality({op[2]}) = 1
      BY FS_EmptySet, FS_Singleton
    <3>3. CASE old.records = {}
      BY <1>8, <3>3
    <3>4. CASE old.records = {op[2]}
      <4>1. NotDeleted(op[2]) => ~(Cardinality(p.records) > p.total)
        BY <1>5, <1>8, <3>2, <3>4
      <4>2. ~NotDeleted(op[2]) => op[2] \in Gone
        <5>1. rows[op[2]].state \in {"absent", "live", "deleted"}
          BY <2>2 DEF ConsoleInv, TypeOK, TablesOK
        <5>2. rows[op[2]].state # "absent"
          BY <2>3, <3>4
        <5> QED BY <2>2, <5>1, <5>2 DEF NotDeleted, Gone
      <4> QED BY <1>8, <3>4, <4>1, <4>2
    <3> QED BY <3>1, <3>3, <3>4
  <2> QED BY <1>1, <1>8, <1>10, <1>11, <2>1, <2>4 DEF ListRead
<1> QED BY <1>1, <1>2, <1>8, <1>9, <1>12, <1>13, ReadStep

(***************************************************************************)
(* Steps that write                                                        *)
(***************************************************************************)
\* A step that leaves requests in order keeps the invariant when the tables, the
\* races and the sessions are in order.
LEMMA WriteStep ==
  ASSUME ConsoleInv, TablesOK', Forward, DOMAIN req' = Requests,
         \A s \in Requests :
           \/ Typed(s)' /\ Sound(s)'
           \/ req'[s] = req[s]
           \/ req[s] # Idle /\ req'[s] = [req[s] EXCEPT !.over = TRUE],
         InFlightOnly', LoginFresh', WonForGood', Settled'
  PROVE  ConsoleInv'
<1>1. \A s \in Requests : Typed(s)' /\ Sound(s)'
  BY OthersSound
<1> QED BY <1>1 DEF ConsoleInv, TypeOK

\* A request whose statement has been executed goes on to its log entry.
LEMMA LogNext ==
  ASSUME ConsoleInv, NEW r \in Requests, req[r] # Idle, Goto(r, "log")
  PROVE  /\ DOMAIN req' = Requests /\ req'[r] # Idle /\ req'[r].pc = "log"
         /\ req'[r].op = req[r].op /\ req'[r].token = req[r].token
         /\ \A s \in Requests \ {r} : req'[s] = req[s]
         /\ Typed(r)'
         /\ req[r].op[1] \notin {"page", "list"} /\ Done(req[r].op)' => Sound(r)'
<1>1. /\ DOMAIN req' = Requests /\ req'[r] = [req[r] EXCEPT !.pc = "log"]
      /\ \A s \in Requests \ {r} : req'[s] = req[s]
  BY DEF ConsoleInv, TypeOK, Goto
<1>2. req[r] \in [pc : Running \cup {"answered", "log"}, token : Tokens,
                 op : Ops \cup {<<"login">>}, over : BOOLEAN, page : Page(req[r].page.records)]
  BY Fields
<1>3. /\ req'[r].pc = "log" /\ req'[r].op = req[r].op /\ req'[r].token = req[r].token
      /\ req'[r].page = req[r].page
  BY <1>1, <1>2
<1>4. req'[r] # Idle
  BY <1>3 DEF Idle
<1>5. Typed(r)'
  BY <1>1, <1>2, <1>3 DEF Typed
<1>6. req[r].op # <<"login">> => PermittedRole(req[r].token, req[r].op)
  BY DEF ConsoleInv, Sound
<1> QED BY <1>1, <1>3, <1>4, <1>5, <1>6 DEF Sound, PermittedRole

\* A request that does not go on acting changes nothing for sessions.
LEMMA SessionsKept ==
  ASSUME ConsoleInv, NEW r \in Requests, UNCHANGED <<active, sessions>>,
         req'[r].pc \in {"idle", "log"}, req[r] # Idle,
         req'[r] # Idle => req'[r].token = req[r].token,
         \A s \in Requests \ {r} : req'[s] = req[s]
  PROVE  InFlightOnly' /\ LoginFresh'
<1>1. InFlightOnly'
  BY DEF ConsoleInv, InFlightOnly, Me
<1>2. LoginFresh'
  BY DEF ConsoleInv, LoginFresh
<1> QED BY <1>1, <1>2

\* The entries of the log stay true.
LEMMA LogKept ==
  ASSUME ConsoleInv, TablesOK', Forward, log' = log
  PROVE  LogTrue'
<1> SUFFICES ASSUME NEW e \in log
             PROVE  Done(e[2])' /\ RoleOf[e[1]] \in Allowed(e[2])
  BY DEF LogTrue
<1>1. PICK op \in Ops \cup {<<"login">>} : op = e[2]
  BY DEF ConsoleInv, TypeOK, TablesOK
<1>2. Done(e[2]) /\ RoleOf[e[1]] \in Allowed(e[2])
  BY DEF ConsoleInv, Settled, LogTrue
<1>3. Done(op)'
  BY <1>1, <1>2, DoneKept DEF ConsoleInv, TypeOK
<1>4. Done(e[2])'
  BY <1>1, <1>3 DEF Done
<1> QED BY <1>2, <1>4

\* Races that are not about orders leave those as they are.
LEMMA PathsKept ==
  ASSUME ConsoleInv, orders' = orders,
         \A o \in Orders, next \in 1 .. 3 : <<"move", o, next>> \in won' <=> <<"move", o, next>> \in won
  PROVE  OrderPath'
<1> SUFFICES ASSUME NEW o \in Orders
             PROVE  {next \in 1 .. 3 : <<"move", o, next>> \in won'}
                      = {next \in 1 .. 3 : <<"move", o, next>> \in won}
  BY DEF OrderPath, Orders, ConsoleInv, Settled
<1> QED OBVIOUS

\* Whoever is overtaken is told so, and nothing else changes.
LEMMA OvertakenOver ==
  ASSUME ConsoleInv, NEW ts, NEW s \in Requests
  PROVE  /\ \/ Overtaken(ts)[s] = req[s]
            \/ req[s] # Idle /\ Overtaken(ts)[s] = [req[s] EXCEPT !.over = TRUE]
         /\ Overtaken(ts)[s] # Idle <=> req[s] # Idle
         /\ Overtaken(ts)[s].pc = req[s].pc
         /\ req[s] # Idle => /\ Overtaken(ts)[s].token = req[s].token
                             /\ Overtaken(ts)[s].op = req[s].op
         /\ req[s].pc \in Running => Overtaken(ts)[s].over = (req[s].over \/ req[s].token \in ts)
<1>1. Overtaken(ts)[s] = IF req[s].pc \in Running /\ req[s].token \in ts
                         THEN [req[s] EXCEPT !.over = TRUE] ELSE req[s]
  BY DEF Overtaken
<1>2. CASE req[s] = Idle
  <2>1. req[s].pc \notin Running
    BY <1>2 DEF Idle, Running
  <2> QED BY <1>1, <1>2, <2>1
<1>3. CASE req[s] # Idle
  <2>1. req[s] \in [pc : Running \cup {"answered", "log"}, token : Tokens,
                   op : Ops \cup {<<"login">>}, over : BOOLEAN, page : Page(req[s].page.records)]
    BY <1>3, Fields
  <2>2. CASE req[s].pc \in Running /\ req[s].token \in ts
    <3>1. Overtaken(ts)[s] = [req[s] EXCEPT !.over = TRUE]
      BY <1>1, <2>2
    <3>2. /\ Overtaken(ts)[s].pc = req[s].pc /\ Overtaken(ts)[s].token = req[s].token
          /\ Overtaken(ts)[s].op = req[s].op /\ Overtaken(ts)[s].over = TRUE
      BY <2>1, <3>1
    <3>3. Overtaken(ts)[s] # Idle
      BY <2>2, <3>2 DEF Idle, Running
    <3> QED BY <1>3, <2>2, <3>1, <3>2, <3>3
  <2>3. CASE ~(req[s].pc \in Running /\ req[s].token \in ts)
    <3>1. Overtaken(ts)[s] = req[s]
      BY <1>1, <2>3
    <3>2. req[s].over \in BOOLEAN
      BY <2>1
    <3> QED BY <1>3, <2>3, <3>1, <3>2
  <2> QED BY <2>2, <2>3
<1> QED BY <1>2, <1>3

\* Login, its INSERT: the session goes live, and nobody waits for it to be something else.
LEMMA LoginInsertInv ==
  ASSUME ConsoleInv, NEW r \in Requests, LoginInsert(r)
  PROVE  ConsoleInv'
<1> DEFINE t == req[r].token
<1>1. /\ req[r].pc = "insert" /\ sessions' = [sessions EXCEPT ![t] = "live"] /\ Goto(r, "log")
      /\ UNCHANGED <<active, rows, orders, log, won, twice>>
  BY DEF LoginInsert, NoRace
<1>2. req[r] # Idle
  BY <1>1 DEF Idle
<1>3. t \in Tokens
  BY <1>2, Fields
<1>4. /\ req[r].op = <<"login">> /\ sessions[t] = "none"
      /\ \A s \in Requests \ {r} : req[s] # Idle => req[s].token # t
  BY <1>1 DEF ConsoleInv, LoginFresh
<1>5. TablesOK' /\ Forward
  BY <1>1, <1>3 DEF ConsoleInv, TypeOK, TablesOK, Forward, Orders
<1>6. /\ DOMAIN req' = Requests /\ req'[r].pc = "log" /\ req'[r].op = req[r].op
      /\ \A s \in Requests \ {r} : req'[s] = req[s]
      /\ req'[r].token = t /\ Typed(r)'
      /\ req[r].op[1] \notin {"page", "list"} /\ Done(req[r].op)' => Sound(r)'
  BY <1>1, <1>2, LogNext
<1>7. Sound(r)'
  BY <1>4, <1>6 DEF Done
<1>8. sessions' \in [Tokens -> {"none", "live", "expired", "revoked"}]
      /\ sessions'[t] = "live" /\ \A x \in Tokens \ {t} : sessions'[x] = sessions[x]
  BY <1>1, <1>3 DEF ConsoleInv, TypeOK, TablesOK
<1>9. \A s \in Requests : req[s] # Idle => req[s].token \in Tokens
  BY Fields
<1>10. InFlightOnly'
  <2> SUFFICES ASSUME NEW s \in Requests, req'[s].pc \in {"act", "count"},
                      sessions'[req'[s].token] # "live" \/ UserOf[req'[s].token] \notin active
               PROVE  req'[s].over
    BY <1>1 DEF InFlightOnly, Me
  <2>1. s # r /\ req'[s] = req[s] /\ req[s] # Idle
    BY <1>6 DEF Idle
  <2>2. sessions[req[s].token] # "live" \/ UserOf[req[s].token] \notin active
    BY <1>4, <1>8, <1>9, <2>1
  <2> QED BY <2>1, <2>2 DEF ConsoleInv, InFlightOnly, Me
<1>11. LoginFresh'
  <2> SUFFICES ASSUME NEW x \in Requests, req'[x].pc = "insert"
               PROVE  /\ req'[x].op = <<"login">> /\ sessions'[req'[x].token] = "none"
                      /\ \A s \in Requests \ {x} : req'[s] # Idle => req'[s].token # req'[x].token
    BY DEF LoginFresh
  <2>1. x # r /\ req'[x] = req[x] /\ req[x] # Idle
    BY <1>6 DEF Idle
  <2>2. /\ req[x].op = <<"login">> /\ sessions[req[x].token] = "none"
        /\ \A s \in Requests \ {x} : req[s] # Idle => req[s].token # req[x].token
    BY <2>1 DEF ConsoleInv, LoginFresh
  <2>3. req[x].token # t /\ req[x].token \in Tokens
    BY <1>4, <1>9, <2>1
  <2> QED BY <1>6, <1>8, <1>2, <2>1, <2>2, <2>3
<1>12. WonForGood'
  <2>1. WonForGood
    BY DEF ConsoleInv
  <2>2. \A x \in Tokens : <<"logout", x>> \in won => sessions'[x] = "revoked"
    BY <1>4, <1>8, <2>1 DEF WonForGood
  <2> QED BY <1>1, <2>1, <2>2 DEF WonForGood, Orders
<1>13. Settled'
  <2>1. LogTrue'
    BY <1>1, <1>5, LogKept
  <2>2. OrderPath'
    BY <1>1, PathsKept
  <2> QED BY <1>1, <2>1, <2>2 DEF ConsoleInv, Settled, OneWinner
<1> QED BY <1>5, <1>6, <1>7, <1>10, <1>11, <1>12, <1>13, WriteStep

\* A session or a user that comes to an end: whoever was let in is overtaken,
\* and no login is.
LEMMA EndStep ==
  ASSUME ConsoleInv, NEW ts \in SUBSET Tokens, NEW gone \in SUBSET Requests,
         TablesOK', UNCHANGED <<rows, orders, log>>, won \subseteq won',
         req' = [s \in Requests |-> IF s \in gone THEN Idle ELSE Overtaken(ts)[s]],
         \A t \in Tokens : t \notin ts => sessions'[t] = sessions[t]
                           /\ (UserOf[t] \in active => UserOf[t] \in active'),
         \A t \in Tokens : sessions[t] = "none" => sessions'[t] = "none",
         WonForGood', Settled'
  PROVE  ConsoleInv'
<1>1. \A s \in Requests :
        /\ \/ Overtaken(ts)[s] = req[s]
           \/ req[s] # Idle /\ Overtaken(ts)[s] = [req[s] EXCEPT !.over = TRUE]
        /\ Overtaken(ts)[s] # Idle <=> req[s] # Idle
        /\ Overtaken(ts)[s].pc = req[s].pc
        /\ req[s] # Idle => /\ Overtaken(ts)[s].token = req[s].token
                            /\ Overtaken(ts)[s].op = req[s].op
        /\ req[s].pc \in Running => Overtaken(ts)[s].over = (req[s].over \/ req[s].token \in ts)
  BY OvertakenOver
<1>2. \A s \in Requests : req'[s] = IF s \in gone THEN Idle ELSE Overtaken(ts)[s]
  OBVIOUS
<1>3. Forward /\ DOMAIN req' = Requests
  BY DEF Forward, Orders
<1>4. \A s \in gone : Typed(s)' /\ Sound(s)'
  BY <1>2 DEF Typed, Sound
<1>5. \A s \in Requests : req[s] # Idle => req[s].token \in Tokens
  BY Fields
<1>6. InFlightOnly'
  <2> SUFFICES ASSUME NEW s \in Requests, req'[s].pc \in {"act", "count"},
                      sessions'[req'[s].token] # "live" \/ UserOf[req'[s].token] \notin active'
               PROVE  req'[s].over
    BY DEF InFlightOnly, Me
  <2>1. s \notin gone /\ req'[s] = Overtaken(ts)[s]
    BY <1>2 DEF Idle
  <2>2. req[s].pc \in {"act", "count"} /\ req[s] # Idle /\ req'[s].token = req[s].token
    <3>1. req[s].pc \in {"act", "count"}
      BY <1>1, <2>1, Zenon
    <3>2. req[s] # Idle
      BY <3>1 DEF Idle
    <3> QED BY <1>1, <2>1, <3>1, <3>2, Zenon
  <2>3. req'[s].over = (req[s].over \/ req[s].token \in ts)
    BY <1>1, <2>1, <2>2 DEF Running
  <2>4. CASE req[s].token \in ts
    BY <2>3, <2>4
  <2>5. CASE req[s].token \notin ts
    <3>1. sessions[req[s].token] # "live" \/ UserOf[req[s].token] \notin active
      BY <1>5, <2>2, <2>5
    <3>2. req[s].over
      BY <2>2, <3>1 DEF ConsoleInv, InFlightOnly, Me
    <3> QED BY <2>3, <3>2
  <2> QED BY <2>4, <2>5
<1>7. LoginFresh'
  <2> SUFFICES ASSUME NEW x \in Requests, req'[x].pc = "insert"
               PROVE  /\ req'[x].op = <<"login">> /\ sessions'[req'[x].token] = "none"
                      /\ \A s \in Requests \ {x} : req'[s] # Idle => req'[s].token # req'[x].token
    BY DEF LoginFresh
  <2>1. x \notin gone /\ req'[x] = Overtaken(ts)[x]
    BY <1>2 DEF Idle
  <2>2. req[x].pc = "insert" /\ req[x] # Idle /\ req'[x].token = req[x].token /\ req'[x].op = req[x].op
    <3>1. req[x].pc = "insert"
      BY <1>1, <2>1, Zenon
    <3>2. req[x] # Idle
      BY <3>1 DEF Idle
    <3> QED BY <1>1, <2>1, <3>1, <3>2, Zenon
  <2>3. /\ req[x].op = <<"login">> /\ sessions[req[x].token] = "none"
        /\ \A s \in Requests \ {x} : req[s] # Idle => req[s].token # req[x].token
    BY <2>2 DEF ConsoleInv, LoginFresh
  <2>4. \A s \in Requests : req'[s] # Idle => req[s] # Idle /\ req'[s].token = req[s].token
    BY <1>1, <1>2
  <2> QED BY <1>5, <2>2, <2>3, <2>4
<1>8. \A s \in Requests :
        \/ Typed(s)' /\ Sound(s)'
        \/ req'[s] = req[s]
        \/ req[s] # Idle /\ req'[s] = [req[s] EXCEPT !.over = TRUE]
  BY <1>1, <1>2, <1>4
<1> QED BY <1>3, <1>6, <1>7, <1>8, WriteStep

\* A session expires.
LEMMA ExpireInv ==
  ASSUME ConsoleInv, NEW t \in Tokens, Expire(t)
  PROVE  ConsoleInv'
<1>1. /\ sessions[t] = "live" /\ sessions' = [sessions EXCEPT ![t] = "expired"]
      /\ req' = Overtaken({t}) /\ UNCHANGED <<active, rows, orders, log, won, twice>>
  BY DEF Expire, NoRace
<1>2. req' = [s \in Requests |-> IF s \in {} THEN Idle ELSE Overtaken({t})[s]]
  BY <1>1 DEF Overtaken
<1>3. /\ TablesOK' /\ sessions'[t] = "expired"
      /\ \A x \in Tokens \ {t} : sessions'[x] = sessions[x]
  BY <1>1 DEF ConsoleInv, TypeOK, TablesOK
<1>4. WonForGood'
  BY <1>1, <1>3 DEF ConsoleInv, WonForGood, Orders
<1>5. Settled'
  <2>1. Forward
    BY <1>1 DEF Forward, Orders
  <2>2. LogTrue'
    BY <1>1, <1>3, <2>1, LogKept
  <2>3. OrderPath'
    BY <1>1, PathsKept
  <2> QED BY <1>1, <2>2, <2>3 DEF ConsoleInv, Settled, OneWinner
<1> DEFINE none == {}
<1>6. none \in SUBSET Requests /\ req' = [s \in Requests |-> IF s \in none THEN Idle ELSE Overtaken({t})[s]]
  BY <1>2
<1> HIDE DEF none
<1>7. {t} \in SUBSET Tokens
  OBVIOUS
<1>8. \A x \in Tokens : x \notin {t} => sessions'[x] = sessions[x]
                       /\ (UserOf[x] \in active => UserOf[x] \in active')
  BY <1>1, <1>3
<1>9. \A x \in Tokens : sessions[x] = "none" => sessions'[x] = "none"
  BY <1>1, <1>3
<1> QED BY <1>1, <1>3, <1>4, <1>5, <1>6, <1>7, <1>8, <1>9, EndStep

\* A user is disabled, with all his sessions.
LEMMA DisableInv ==
  ASSUME ConsoleInv, NEW u \in Users, Disable(u)
  PROVE  ConsoleInv'
<1> DEFINE ts == {t \in Tokens : UserOf[t] = u}
           none == {}
<1>1. /\ active' = active \ {u} /\ req' = Overtaken(ts)
      /\ UNCHANGED <<sessions, rows, orders, log, won, twice>>
  BY DEF Disable, NoRace
<1>2. none \in SUBSET Requests /\ req' = [s \in Requests |-> IF s \in none THEN Idle ELSE Overtaken(ts)[s]]
  BY <1>1 DEF Overtaken
<1>3. TablesOK'
  BY <1>1 DEF ConsoleInv, TypeOK, TablesOK
<1>4. WonForGood'
  BY <1>1 DEF ConsoleInv, WonForGood, Orders
<1>5. Settled'
  <2>1. Forward
    BY <1>1 DEF Forward, Orders
  <2>2. LogTrue'
    BY <1>1, <1>3, <2>1, LogKept
  <2>3. OrderPath'
    BY <1>1, PathsKept
  <2> QED BY <1>1, <2>2, <2>3 DEF ConsoleInv, Settled, OneWinner
<1>6. ts \in SUBSET Tokens
  OBVIOUS
<1>7. \A x \in Tokens : x \notin ts => sessions'[x] = sessions[x]
                       /\ (UserOf[x] \in active => UserOf[x] \in active')
  BY <1>1
<1>8. \A x \in Tokens : sessions[x] = "none" => sessions'[x] = "none"
  BY <1>1
<1> HIDE DEF ts, none
<1> QED BY <1>1, <1>2, <1>3, <1>4, <1>5, <1>6, <1>7, <1>8, EndStep

\* Only one logout of a session finds it to be revoked.
LEMMA LogoutInv ==
  ASSUME ConsoleInv, NEW r \in Requests, Logout(r)
  PROVE  ConsoleInv'
<1> DEFINE t == req[r].token
<1>1. /\ req[r].pc = "act" /\ sessions[t] \in {"live", "expired"}
      /\ sessions' = [sessions EXCEPT ![t] = "revoked"]
      /\ won' = won \cup {<<"logout", t>>}
      /\ twice' = IF <<"logout", t>> \in won THEN twice \cup {<<"logout", t>>} ELSE twice
      /\ req' = [Overtaken({t}) EXCEPT ![r] = Idle]
      /\ UNCHANGED <<active, rows, orders, log>>
  BY DEF Logout, Acting, Revocable, Wins
<1>2. t \in Tokens
  BY <1>1, Fields DEF Idle
<1>3. /\ TablesOK' /\ sessions'[t] = "revoked"
      /\ \A x \in Tokens \ {t} : sessions'[x] = sessions[x]
  BY <1>1, <1>2 DEF ConsoleInv, TypeOK, TablesOK
<1>4. WonForGood'
  <2>1. WonForGood
    BY DEF ConsoleInv
  <2>2. \A x \in Tokens : <<"logout", x>> \in won' => sessions'[x] = "revoked"
    BY <1>1, <1>3, <2>1 DEF WonForGood
  <2>3. \A k \in Kinds : <<"delete", k>> \in won' => rows'[k].state = "deleted"
    BY <1>1, <2>1 DEF WonForGood
  <2>4. \A o \in (1 .. MaxOrders) \ Orders', next \in 1 .. 3 : <<"move", o, next>> \notin won'
    BY <1>1, <2>1 DEF WonForGood, Orders
  <2> QED BY <2>2, <2>3, <2>4 DEF WonForGood
<1>5. Settled'
  <2>1. Forward
    BY <1>1 DEF Forward, Orders
  <2>2. LogTrue'
    BY <1>1, <1>3, <2>1, LogKept
  <2>3. OrderPath'
    BY <1>1, PathsKept
  <2>4. <<"logout", t>> \notin won
    BY <1>1, <1>2 DEF ConsoleInv, WonForGood
  <2> QED BY <1>1, <2>2, <2>3, <2>4 DEF ConsoleInv, Settled, OneWinner
<1>6. /\ {r} \in SUBSET Requests /\ {t} \in SUBSET Tokens
      /\ req' = [s \in Requests |-> IF s \in {r} THEN Idle ELSE Overtaken({t})[s]]
  BY <1>1, <1>2 DEF Overtaken
<1>7. \A x \in Tokens : x \notin {t} => sessions'[x] = sessions[x]
                       /\ (UserOf[x] \in active => UserOf[x] \in active')
  BY <1>1, <1>3
<1>8. \A x \in Tokens : sessions[x] = "none" => sessions'[x] = "none"
  BY <1>1, <1>3
<1>9. won \subseteq won' /\ UNCHANGED <<rows, orders, log>>
  BY <1>1
<1> HIDE DEF t
<1> QED BY <1>3, <1>4, <1>5, <1>6, <1>7, <1>8, <1>9, EndStep

\* A row goes from absent to live to deleted, and never back.
LEMMA PutRowInv ==
  ASSUME ConsoleInv, NEW r \in Requests, NEW k \in Kinds, req[r].pc = "act",
         NEW state \in {"live", "deleted"}, PutRow(r, k, state), rows[k].state # "deleted",
         \/ req[r].op \in {<<"create", k>>, <<"update", k>>} /\ NoRace
         \/ req[r].op = <<"delete", k>> /\ state = "deleted" /\ Wins(<<"delete", k>>)
  PROVE  ConsoleInv'
<1>1. /\ rows' = [rows EXCEPT ![k] = [state |-> state, by |-> Me(r)]] /\ Goto(r, "log")
      /\ UNCHANGED <<active, sessions, orders, log>>
  BY DEF PutRow
<1>2. req[r] # Idle
  BY DEF Idle
<1>3. req[r].token \in Tokens /\ Me(r) \in Users
  BY <1>2, Fields, ConsoleAssumption DEF Me
<1>4. /\ rows'[k].state = state /\ \A x \in Kinds \ {k} : rows'[x] = rows[x]
      /\ rows' \in [Kinds -> [state : {"absent", "live", "deleted"}, by : Users \cup {Nobody}]]
  BY <1>1, <1>3 DEF ConsoleInv, TypeOK, TablesOK
<1>5. TablesOK'
  BY <1>1, <1>4 DEF ConsoleInv, TypeOK, TablesOK
<1>6. won \subseteq won' /\ (won' = won \/ (won' = won \cup {<<"delete", k>>} /\ state = "deleted"))
  <2>1. CASE NoRace
    <3>1. won' = won
      BY <2>1 DEF NoRace
    <3> QED BY <3>1
  <2>2. CASE state = "deleted" /\ Wins(<<"delete", k>>)
    <3>1. won' = won \cup {<<"delete", k>>}
      BY <2>2 DEF Wins
    <3> QED BY <2>2, <3>1
  <2> QED BY <2>1, <2>2
<1>7. Forward
  BY <1>1, <1>4, <1>6 DEF Forward, Orders
<1>8. /\ DOMAIN req' = Requests /\ req'[r] # Idle /\ req'[r].pc = "log" /\ req'[r].op = req[r].op
      /\ req'[r].token = req[r].token /\ \A s \in Requests \ {r} : req'[s] = req[s]
      /\ Typed(r)'
      /\ req[r].op[1] \notin {"page", "list"} /\ Done(req[r].op)' => Sound(r)'
  BY <1>1, <1>2, LogNext
<1>9. Sound(r)'
  <2>1. CASE req[r].op \in {<<"create", k>>, <<"update", k>>}
    <3>1. req'[r].op[1] \in {"create", "update"} /\ req'[r].op[2] = k
      BY <1>8, <2>1
    <3>2. Done(req[r].op)'
      BY <1>4, <3>1 DEF Done
    <3> QED BY <1>8, <2>1, <3>2
  <2>2. CASE req[r].op = <<"delete", k>> /\ state = "deleted"
    <3>1. req'[r].op[1] = "delete" /\ req'[r].op[2] = k
      BY <1>8, <2>2
    <3>2. Done(req[r].op)'
      BY <1>4, <2>2, <3>1 DEF Done
    <3> QED BY <1>8, <2>2, <3>2
  <2> QED BY <2>1, <2>2
<1>10. InFlightOnly' /\ LoginFresh'
  BY <1>1, <1>2, <1>8, SessionsKept
<1>11. WonForGood'
  <2>1. WonForGood
    BY DEF ConsoleInv
  <2>2. \A t \in Tokens : <<"logout", t>> \in won' => sessions'[t] = "revoked"
    BY <1>1, <1>6, <2>1 DEF WonForGood
  <2>3. \A x \in Kinds : <<"delete", x>> \in won' => rows'[x].state = "deleted"
    BY <1>4, <1>6, <2>1 DEF WonForGood
  <2>4. \A o \in (1 .. MaxOrders) \ Orders', next \in 1 .. 3 : <<"move", o, next>> \notin won'
    BY <1>1, <1>6, <2>1 DEF WonForGood, Orders
  <2> QED BY <2>2, <2>3, <2>4 DEF WonForGood
<1>12. Settled'
  <2>1. LogTrue'
    BY <1>1, <1>5, <1>7, LogKept
  <2>2. OrderPath'
    BY <1>1, <1>6, PathsKept
  <2>3. <<"delete", k>> \notin won
    BY DEF ConsoleInv, WonForGood
  <2>4. twice' = twice
    BY <2>3 DEF NoRace, Wins
  <2> QED BY <2>1, <2>2, <2>4 DEF ConsoleInv, Settled, OneWinner
<1> QED BY <1>5, <1>7, <1>8, <1>9, <1>10, <1>11, <1>12, WriteStep

\* CreateAcousticBuoy, UpdateAcousticBuoy, DeleteAcousticBuoy and their likes.
LEMMA WriteRowInv ==
  ASSUME ConsoleInv, NEW r \in Requests, NEW k \in Kinds, WriteRow(r, k)
  PROVE  ConsoleInv'
<1>1. CASE CreateRow(r, k)
  <2>1. /\ req[r].pc = "act" /\ req[r].op = <<"create", k>> /\ rows[k].state = "absent"
        /\ PutRow(r, k, "live") /\ NoRace
    BY <1>1 DEF CreateRow, Acting
  <2> QED BY <2>1, PutRowInv
<1>2. CASE UpdateRow(r, k)
  <2>1. /\ req[r].pc = "act" /\ req[r].op = <<"update", k>> /\ rows[k].state = "live"
        /\ PutRow(r, k, "live") /\ NoRace
    BY <1>2 DEF UpdateRow, Acting, Updatable, NotDeleted
  <2> QED BY <2>1, PutRowInv
<1>3. CASE DeleteRow(r, k)
  <2>1. /\ req[r].pc = "act" /\ req[r].op = <<"delete", k>> /\ rows[k].state = "live"
        /\ PutRow(r, k, "deleted") /\ Wins(<<"delete", k>>)
    BY <1>3 DEF DeleteRow, Acting, NotDeleted
  <2> QED BY <2>1, PutRowInv
<1> QED BY <1>1, <1>2, <1>3 DEF WriteRow

\* The log entry is written by whom the request was let in for.
LEMMA WriteLogInv ==
  ASSUME ConsoleInv, NEW r \in Requests, WriteLog(r)
  PROVE  ConsoleInv'
<1>1. /\ req[r].pc = "log" /\ log' = log \cup ({Me(r)} \X ({req[r].op} \cap Ops))
      /\ req' = [req EXCEPT ![r] = Idle]
      /\ UNCHANGED <<active, sessions, rows, orders, won, twice>>
  BY DEF WriteLog, Logged, End, NoRace
<1>2. req[r] # Idle
  BY <1>1 DEF Idle
<1>3. req[r].token \in Tokens /\ req[r].op \in Ops \cup {<<"login">>} /\ Me(r) \in Users
  BY <1>2, Fields, ConsoleAssumption DEF Me
<1>4. TablesOK' /\ Forward
  BY <1>1, <1>3 DEF ConsoleInv, TypeOK, TablesOK, Forward, Orders
<1>5. DOMAIN req' = Requests /\ req'[r] = Idle /\ \A s \in Requests \ {r} : req'[s] = req[s]
  BY <1>1 DEF ConsoleInv, TypeOK
<1>6. Typed(r)' /\ Sound(r)'
  BY <1>5 DEF Typed, Sound
<1>7. InFlightOnly' /\ LoginFresh'
  <2>1. req'[r].pc = "idle"
    BY <1>5 DEF Idle
  <2> QED BY <1>1, <1>2, <1>5, <2>1, SessionsKept
<1>8. WonForGood'
  BY <1>1 DEF ConsoleInv, WonForGood, Orders
<1>9. LogTrue'
  <2>1. /\ Done(req[r].op)
        /\ req[r].op # <<"login">> => PermittedRole(req[r].token, req[r].op)
    BY <1>1, <1>2 DEF ConsoleInv, Sound
  <2> SUFFICES ASSUME NEW e \in log' PROVE Done(e[2])' /\ RoleOf[e[1]] \in Allowed(e[2])
    BY DEF LogTrue
  <2>2. \/ e \in log
        \/ req[r].op \in Ops /\ e[1] = UserOf[req[r].token] /\ e[2] = req[r].op
    BY <1>1 DEF Me
  <2>3. Done(e[2]) /\ RoleOf[e[1]] \in Allowed(e[2])
    <3>1. <<"login">> \notin Ops
      BY DEF Ops, RowOps, OrderOps, PageOps, ListOps
    <3>2. e \in log => Done(e[2]) /\ RoleOf[e[1]] \in Allowed(e[2])
      BY DEF ConsoleInv, Settled, LogTrue
    <3> QED BY <2>1, <2>2, <3>1, <3>2 DEF PermittedRole
  <2> QED BY <1>1, <2>3 DEF Done, Orders
<1>10. Settled'
  <2>1. OrderPath'
    BY <1>1, PathsKept
  <2> QED BY <1>1, <1>9, <2>1 DEF ConsoleInv, Settled, OneWinner
<1> QED BY <1>4, <1>5, <1>6, <1>7, <1>8, <1>10, WriteStep

\* A new order has made no move.
LEMMA CreateWorkOrderInv ==
  ASSUME ConsoleInv, NEW r \in Requests, CreateWorkOrder(r)
  PROVE  ConsoleInv'
<1> DEFINE n == Cardinality(Orders) + 1
           new == [status |-> 0, version |-> 1]
<1>1. /\ req[r].pc = "act" /\ req[r].op = <<"order", "new">> /\ n <= MaxOrders
      /\ orders' = [o \in 1 .. n |-> IF o = n THEN new ELSE orders[o]]
      /\ Goto(r, "log") /\ UNCHANGED <<active, sessions, rows, log, won, twice>>
  BY DEF CreateWorkOrder, Acting, NoRace
<1>2. req[r] # Idle
  BY <1>1 DEF Idle
<1>3. /\ n \in 3 .. MaxOrders /\ n \in Nat /\ Orders = 1 .. n - 1
      /\ orders \in [1 .. n - 1 -> [status : 0 .. 3, version : Nat]]
  <2>1. Numbered
    BY OrdersCount DEF ConsoleInv, TypeOK
  <2>2. (Cardinality(Orders) + 1) - 1 = Cardinality(Orders)
    BY <2>1 DEF Numbered
  <2> QED BY <1>1, <2>1, <2>2, ConsoleAssumption DEF Numbered
<1> HIDE DEF n
<1>4. /\ orders' \in [1 .. n -> [status : 0 .. 3, version : Nat]] /\ Orders' = 1 .. n
      /\ \A o \in Orders : o # n /\ orders'[o] = orders[o]
      /\ orders'[n] = new
  <2>1. \A o \in 1 .. n : o # n => o \in 1 .. n - 1
    BY <1>3
  <2>2. new \in [status : 0 .. 3, version : Nat]
    OBVIOUS
  <2>3. n \in 1 .. n /\ \A o \in 1 .. n - 1 : o \in 1 .. n /\ o # n
    BY <1>3
  <2> HIDE DEF new
  <2> QED BY <1>1, <1>3, <2>1, <2>2, <2>3 DEF Orders
<1>5. TablesOK'
  <2>1. n \in 2 .. MaxOrders
    BY <1>3
  <2> QED BY <1>1, <1>4, <2>1 DEF ConsoleInv, TypeOK, TablesOK
<1>6. Forward /\ Orders' # Seeds /\ Orders' = Orders \cup {n} /\ n \notin Orders /\ n \notin Seeds
  <2>1. Orders' = Orders \cup {n} /\ n \notin Orders
    BY <1>3, <1>4
  <2>2. n \notin Seeds /\ n \in Orders'
    BY <1>3, <1>4 DEF Seeds
  <2> QED BY <1>1, <2>1, <2>2 DEF Forward
<1>7. /\ DOMAIN req' = Requests /\ req'[r] # Idle /\ req'[r].pc = "log" /\ req'[r].op = req[r].op
      /\ req'[r].token = req[r].token /\ \A s \in Requests \ {r} : req'[s] = req[s]
      /\ Typed(r)'
      /\ req[r].op[1] \notin {"page", "list"} /\ Done(req[r].op)' => Sound(r)'
  BY <1>1, <1>2, LogNext
<1>8. Sound(r)'
  <2>1. Done(req[r].op)'
    BY <1>1, <1>6, <1>7 DEF Done
  <2> QED BY <1>1, <1>7, <2>1
<1>9. InFlightOnly' /\ LoginFresh'
  BY <1>1, <1>2, <1>7, SessionsKept
<1>10. WonForGood'
  BY <1>1, <1>6 DEF ConsoleInv, WonForGood
<1>11. OrderPath'
  <2>1. OrderPath
    BY DEF ConsoleInv, Settled
  <2> SUFFICES ASSUME NEW o \in Orders'
               PROVE  LET first == IF o \in Seeds THEN o - 1 ELSE 0
                          moved == {next \in 1 .. 3 : <<"move", o, next>> \in won'} IN
                      /\ orders'[o].version = 1 + Cardinality(moved)
                      /\ <<first, orders'[o].status, moved>> \in Paths
    BY DEF OrderPath
  <2>2. CASE o \in Orders
    <3>1. orders'[o] = orders[o] /\ won' = won
      BY <1>1, <1>4, <2>2
    <3> QED BY <2>1, <2>2, <3>1 DEF OrderPath
  <2>3. CASE o = n
    <3> DEFINE moved == {next \in 1 .. 3 : <<"move", o, next>> \in won'}
               first == IF o \in Seeds THEN o - 1 ELSE 0
    <3>1. moved = {}
      <4>1. o \in (1 .. MaxOrders) \ Orders
        BY <1>3, <1>6, <2>3
      <4>2. \A next \in 1 .. 3 : <<"move", o, next>> \notin won
        BY <4>1 DEF ConsoleInv, WonForGood
      <4> QED BY <1>1, <4>2
    <3>2. first = 0 /\ orders'[o].version = 1 /\ orders'[o].status = 0
      BY <1>4, <1>6, <2>3
    <3>3. Cardinality({}) = 0
      BY FS_EmptySet
    <3> HIDE DEF moved, first
    <3>4. orders'[o].version = 1 + Cardinality(moved)
      BY <3>1, <3>2, <3>3
    <3>5. <<first, orders'[o].status, moved>> = <<0, 0, {}>>
      BY <3>1, <3>2
    <3> QED BY <3>4, <3>5 DEF moved, first, Paths
  <2> QED BY <1>6, <2>2, <2>3
<1>12. Settled'
  <2>1. LogTrue'
    BY <1>1, <1>5, <1>6, LogKept
  <2> QED BY <1>1, <1>11, <2>1 DEF ConsoleInv, Settled, OneWinner
<1> QED BY <1>5, <1>6, <1>7, <1>8, <1>9, <1>10, <1>12, WriteStep

\* The sets of moves that an order can have made have as many elements as they show.
LEMMA MovesCounted ==
  /\ Cardinality({}) = 0 /\ Cardinality({1}) = 1 /\ Cardinality({2}) = 1 /\ Cardinality({3}) = 1
  /\ Cardinality({1, 2}) = 2
<1>1. Cardinality({}) = 0 /\ Cardinality({1}) = 1 /\ Cardinality({2}) = 1 /\ Cardinality({3}) = 1
  BY FS_EmptySet, FS_Singleton
<1>2. Cardinality({1, 2}) = 2
  <2>1. {1, 2} = {1} \cup {2} /\ 2 \notin {1}
    OBVIOUS
  <2>2. IsFiniteSet({1})
    BY FS_Singleton
  <2>3. Cardinality({1} \cup {2}) = Cardinality({1}) + 1
    BY <2>1, <2>2, FS_AddElement
  <2> QED BY <1>1, <2>1, <2>3
<1> QED BY <1>1, <1>2

\* A move that the status admits is the next one on its path, so it has not
\* been won before.
LEMMA NextOnPath ==
  ASSUME NEW first, NEW status, NEW moved, NEW next \in 1 .. 3, status \in MovedFrom(next),
         <<first, status, moved>> \in Paths
  PROVE  /\ next \notin moved
         /\ <<first, next, moved \cup {next}>> \in Paths
         /\ Cardinality(moved \cup {next}) = Cardinality(moved) + 1
<1>1. next = 1 \/ next = 2 \/ next = 3
  OBVIOUS
<1>2. \/ next = 1 /\ status = 0
      \/ next = 2 /\ status = 1
      \/ next = 3 /\ status = 0
  <2>1. next = 1 => status = 0
    BY DEF MovedFrom
  <2>2. next = 2 => status = 1
    BY DEF MovedFrom
  <2>3. next = 3 => status = 0
    BY DEF MovedFrom
  <2> QED BY <1>1, <2>1, <2>2, <2>3
<1>3. \/ next = 1 /\ first = 0 /\ moved = {}
      \/ next = 2 /\ first = 0 /\ moved = {1}
      \/ next = 2 /\ first = 1 /\ moved = {}
      \/ next = 3 /\ first = 0 /\ moved = {}
  BY <1>2 DEF Paths
<1>4. CASE next = 1 /\ first = 0 /\ moved = {}
  <2>1. moved \cup {next} = {1}
    BY <1>4
  <2> QED BY <1>4, <2>1, MovesCounted DEF Paths
<1>5. CASE next = 2 /\ first = 0 /\ moved = {1}
  <2>1. moved \cup {next} = {1, 2}
    BY <1>5
  <2> QED BY <1>5, <2>1, MovesCounted DEF Paths
<1>6. CASE next = 2 /\ first = 1 /\ moved = {}
  <2>1. moved \cup {next} = {2}
    BY <1>6
  <2> QED BY <1>6, <2>1, MovesCounted DEF Paths
<1>7. CASE next = 3 /\ first = 0 /\ moved = {}
  <2>1. moved \cup {next} = {3}
    BY <1>7
  <2> QED BY <1>7, <2>1, MovesCounted DEF Paths
<1> QED BY <1>3, <1>4, <1>5, <1>6, <1>7

\* The status that UpdateWorkOrderStatus asks for makes moves of an order race:
\* whoever is first leaves it in another.
LEMMA MoveInv ==
  ASSUME ConsoleInv, NEW r \in Requests, UpdateWorkOrderStatus(r)
  PROVE  ConsoleInv'
<1> DEFINE o == req[r].op[2]
           next == req[r].op[3]
           op == req[r].op
           moved(x) == {y \in 1 .. 3 : <<"move", x, y>> \in won}
           first(x) == IF x \in Seeds THEN x - 1 ELSE 0
<1>1. /\ req[r].pc = "act" /\ op[1] = "move" /\ o \in Orders
      /\ orders[o].status \in MovedFrom(next)
      /\ orders' = [orders EXCEPT ![o] = [status |-> next, version |-> orders[o].version + 1]]
      /\ won' = won \cup {op} /\ twice' = (IF op \in won THEN twice \cup {op} ELSE twice)
      /\ Goto(r, "log") /\ UNCHANGED <<active, sessions, rows, log>>
  BY DEF UpdateWorkOrderStatus, ActingAny, Wins
<1>2. req[r] # Idle
  BY <1>1 DEF Idle
<1>3. op \in Ops \cup {<<"login">>} /\ next \in 1 .. 3 /\ op = <<"move", o, next>>
  BY <1>1, <1>2, Fields, OpShapes
<1>4. PICK n \in 2 .. MaxOrders : orders \in [1 .. n -> [status : 0 .. 3, version : Nat]]
  BY DEF ConsoleInv, TypeOK, TablesOK
<1>5. /\ Orders = 1 .. n /\ Orders' = Orders
      /\ orders' \in [1 .. n -> [status : 0 .. 3, version : Nat]]
      /\ orders'[o].status = next /\ orders'[o].version = orders[o].version + 1
      /\ orders[o].version \in Nat
      /\ \A x \in Orders : x # o => orders'[x] = orders[x]
  <2> HIDE DEF o, next, op
  <2>1. Orders = 1 .. n
    BY <1>4 DEF Orders
  <2>2. orders[o] \in [status : 0 .. 3, version : Nat] /\ next \in 0 .. 3
    BY <1>1, <1>3, <1>4, <2>1
  <2>3. [status |-> next, version |-> orders[o].version + 1] \in [status : 0 .. 3, version : Nat]
    BY <2>2
  <2> QED BY <1>1, <1>4, <2>1, <2>2, <2>3 DEF Orders
<1>6. TablesOK' /\ Forward
  BY <1>1, <1>5 DEF ConsoleInv, TypeOK, TablesOK, Forward
<1>7. OrderPath /\ OneWinner
  BY DEF ConsoleInv, Settled
<1>8. /\ orders[o].version = 1 + Cardinality(moved(o))
      /\ <<first(o), orders[o].status, moved(o)>> \in Paths
  BY <1>1, <1>7 DEF OrderPath
<1>9. /\ next \notin moved(o) /\ <<first(o), next, moved(o) \cup {next}>> \in Paths
      /\ Cardinality(moved(o) \cup {next}) = Cardinality(moved(o)) + 1
  <2> HIDE DEF o, next, moved, first
  <2>1. PICK f, st, m, y : f = first(o) /\ st = orders[o].status /\ m = moved(o) /\ y = next
    BY Zenon
  <2>2. y \in 1 .. 3 /\ st \in MovedFrom(y) /\ <<f, st, m>> \in Paths
    BY <1>1, <1>3, <1>8, <2>1
  <2>3. /\ y \notin m /\ <<f, y, m \cup {y}>> \in Paths
        /\ Cardinality(m \cup {y}) = Cardinality(m) + 1
    BY <2>2, NextOnPath
  <2> QED BY <2>1, <2>3
<1>10. op \notin won /\ twice' = twice
  <2>1. op \notin won
    BY <1>3, <1>9
  <2> QED BY <1>1, <2>1
<1>11. /\ {y \in 1 .. 3 : <<"move", o, y>> \in won'} = moved(o) \cup {next}
       /\ \A x \in Orders : x # o => {y \in 1 .. 3 : <<"move", x, y>> \in won'} = moved(x)
  <2> HIDE DEF op
  <2> QED BY <1>1, <1>3
<1>12. OrderPath'
  <2> SUFFICES ASSUME NEW x \in Orders
               PROVE  LET f == IF x \in Seeds THEN x - 1 ELSE 0
                          m == {y \in 1 .. 3 : <<"move", x, y>> \in won'} IN
                      /\ orders'[x].version = 1 + Cardinality(m)
                      /\ <<f, orders'[x].status, m>> \in Paths
    BY <1>5 DEF OrderPath
  <2>1. CASE x = o
    <3> DEFINE m == {y \in 1 .. 3 : <<"move", x, y>> \in won'}
    <3>1. m = moved(o) \cup {next}
      BY <1>11, <2>1
    <3>2. Cardinality(moved(o)) + 1 = orders[o].version
      <4>1. moved(o) \subseteq 1 .. 3
        OBVIOUS
      <4>2. IsFiniteSet(1 .. 3)
        <5>1. \A b \in Nat : IsFiniteSet(1 .. b)
          BY FS_Interval
        <5> QED BY <5>1
      <4>3. Cardinality(moved(o)) \in Nat
        <5> HIDE DEF moved
        <5> QED BY <4>1, <4>2, FS_Subset, FS_CardinalityType
      <4> HIDE DEF moved, o
      <4> QED BY <1>8, <4>3
    <3>3. orders'[x].version = 1 + Cardinality(m)
      <4> HIDE DEF m, moved, o
      <4> QED BY <1>5, <1>9, <2>1, <3>1, <3>2
    <3>4. <<first(x), orders'[x].status, m>> \in Paths
      <4> HIDE DEF m, moved, o, first
      <4> QED BY <1>5, <1>9, <2>1, <3>1
    <3> QED BY <3>3, <3>4
  <2>2. CASE x # o
    <3>1. /\ orders[x].version = 1 + Cardinality(moved(x))
          /\ <<first(x), orders[x].status, moved(x)>> \in Paths
      BY <1>7 DEF OrderPath
    <3>2. orders'[x] = orders[x] /\ {y \in 1 .. 3 : <<"move", x, y>> \in won'} = moved(x)
      BY <1>5, <1>11, <2>2
    <3> QED BY <3>1, <3>2
  <2> QED BY <2>1, <2>2
<1>13. /\ DOMAIN req' = Requests /\ req'[r] # Idle /\ req'[r].pc = "log" /\ req'[r].op = op
       /\ req'[r].token = req[r].token /\ \A s \in Requests \ {r} : req'[s] = req[s]
       /\ Typed(r)'
       /\ op[1] \notin {"page", "list"} /\ Done(req[r].op)' => Sound(r)'
  BY <1>1, <1>2, LogNext
<1>14. Sound(r)'
  <2>1. Done(req[r].op)'
    <3>1. op \in won'
      BY <1>1
    <3> QED BY <1>1, <1>13, <3>1 DEF Done
  <2> QED BY <1>1, <1>13, <2>1
<1>15. InFlightOnly' /\ LoginFresh'
  BY <1>1, <1>2, <1>13, SessionsKept
<1>16. WonForGood'
  <2>1. WonForGood
    BY DEF ConsoleInv
  <2>2. \A t \in Tokens : <<"logout", t>> \in won' => sessions'[t] = "revoked"
    BY <1>1, <1>3, <2>1 DEF WonForGood
  <2>3. \A x \in Kinds : <<"delete", x>> \in won' => rows'[x].state = "deleted"
    BY <1>1, <1>3, <2>1 DEF WonForGood
  <2>4. \A x \in (1 .. MaxOrders) \ Orders, y \in 1 .. 3 : <<"move", x, y>> \notin won'
    <3> SUFFICES ASSUME NEW x \in (1 .. MaxOrders) \ Orders, NEW y \in 1 .. 3
                 PROVE  <<"move", x, y>> \notin won'
      OBVIOUS
    <3>1. <<"move", x, y>> \notin won /\ x # o
      BY <1>1, <2>1 DEF WonForGood
    <3>2. <<"move", x, y>> # <<"move", o, next>>
      BY <3>1
    <3> HIDE DEF op, o, next
    <3> QED BY <1>1, <1>3, <3>1, <3>2
  <2> QED BY <1>5, <2>2, <2>3, <2>4 DEF WonForGood
<1>17. Settled'
  <2>1. LogTrue'
    BY <1>1, <1>6, LogKept
  <2> QED BY <1>7, <1>10, <1>12, <2>1 DEF Settled, OneWinner
<1> QED BY <1>6, <1>13, <1>14, <1>15, <1>16, <1>17, WriteStep

(***************************************************************************)
(* The invariant and what follows from it                                  *)
(***************************************************************************)
\* Every step of the console keeps the invariant.
LEMMA ConsoleStep == ConsoleInv /\ [Next]_vars => ConsoleInv'
<1> SUFFICES ASSUME ConsoleInv, [Next]_vars PROVE ConsoleInv'
  OBVIOUS
<1>1. ASSUME NEW r \in Requests, NEW t \in Tokens, LoginRead(r, t) PROVE ConsoleInv'
  BY <1>1, LoginReadInv
<1>2. ASSUME NEW r \in Requests, NEW t \in Tokens, NEW op \in Ops, Authorize(r, t, op)
      PROVE  ConsoleInv'
  BY <1>2, AuthorizeInv
<1>3. ASSUME NEW r \in Requests, LoginInsert(r) PROVE ConsoleInv'
  BY <1>3, LoginInsertInv
<1>4. ASSUME NEW r \in Requests, Act(r) PROVE ConsoleInv'
  <2>1. CASE Logout(r)
    BY <2>1, LogoutInv
  <2>2. CASE AcousticBuoyWrites(r) \/ ArrayOperatorWrites(r) \/ TreatmentWrites(r)
    BY <2>2, WriteRowInv DEF AcousticBuoyWrites, ArrayOperatorWrites, TreatmentWrites
  <2>3. CASE AcousticBuoyPage(r) \/ ArrayOperatorPage(r) \/ TreatmentPage(r)
    BY <2>3, ListRowsInv DEF AcousticBuoyPage, ArrayOperatorPage, TreatmentPage
  <2>4. CASE CreateWorkOrder(r)
    BY <2>4, CreateWorkOrderInv
  <2>5. CASE UpdateWorkOrderStatus(r)
    BY <2>5, MoveInv
  <2>6. CASE \E swapped \in BOOLEAN : WorkOrderPage(r, swapped)
    BY <2>6, WorkOrderPageInv
  <2> QED BY <1>4, <2>1, <2>2, <2>3, <2>4, <2>5, <2>6 DEF Act
<1>5. ASSUME NEW r \in Requests, CountPage(r) PROVE ConsoleInv'
  BY <1>5, CountPageInv
<1>6. ASSUME NEW r \in Requests, NextPage(r) PROVE ConsoleInv'
  BY <1>6, NextPageInv
<1>7. ASSUME NEW r \in Requests, WriteLog(r) PROVE ConsoleInv'
  BY <1>7, WriteLogInv
<1>8. ASSUME NEW r \in Requests, Fail(r) PROVE ConsoleInv'
  BY <1>8, FailInv
<1>9. ASSUME NEW t \in Tokens, Expire(t) PROVE ConsoleInv'
  BY <1>9, ExpireInv
<1>10. ASSUME NEW u \in Users, Disable(u) PROVE ConsoleInv'
  BY <1>10, DisableInv
<1>11. CASE UNCHANGED vars
  <2>1. UNCHANGED <<active, sessions, rows, orders, log, req, won, twice>>
    BY <1>11 DEF vars
  <2>2. TablesOK' /\ Forward /\ DOMAIN req' = Requests
    BY <2>1 DEF ConsoleInv, TypeOK, TablesOK, Forward, Orders
  <2>3. InFlightOnly' /\ LoginFresh' /\ WonForGood'
    BY <2>1 DEF ConsoleInv, InFlightOnly, Me, LoginFresh, WonForGood, Orders
  <2>4. LogTrue' /\ OrderPath'
    BY <2>1, <2>2, LogKept, PathsKept
  <2>5. Settled'
    BY <2>1, <2>4 DEF ConsoleInv, Settled, OneWinner
  <2> QED BY <2>1, <2>2, <2>3, <2>5, WriteStep
<1> QED BY <1>1, <1>2, <1>3, <1>4, <1>5, <1>6, <1>7, <1>8, <1>9, <1>10, <1>11 DEF Next

\* For any requests, sessions, orders and operations, the console's statements
\* keep ConsoleInv, although no handler opens a transaction.
THEOREM ConsoleSafe == Spec => []ConsoleInv
BY ConsoleInit, ConsoleStep, PTL DEF Spec

\* requireConsoleRole: after a logout, an expiry or the disabling of a user, only
\* requests that were let in before go on.
THEOREM SessionsEnd == Spec => []InFlightOnly
<1>1. ConsoleInv => InFlightOnly
  BY DEF ConsoleInv
<1> QED BY <1>1, ConsoleSafe, PTL

(***************************************************************************)
(* What the log leaves out                                                 *)
(***************************************************************************)
\* A request at its log entry stays there, or leaves the entry behind or its
\* operation among the lost ones; and who wins goes there.
LEMMA ToldKept ==
  ASSUME LogTold, log \subseteq log', lost \subseteq lost',
         \A op \in won' \cap (RowOps \cup OrderOps) :
           op \in won \/ \E r \in Requests : req'[r].pc = "log" /\ req'[r].op = op,
         \A r \in Requests : req[r].pc = "log" /\ req[r].op \in won \cap (RowOps \cup OrderOps) =>
           \/ req'[r].pc = "log" /\ req'[r].op = req[r].op
           \/ \E e \in log' : e[2] = req[r].op
           \/ req[r].op \in lost'
  PROVE  LogTold'
<1> SUFFICES ASSUME NEW op \in won' \cap (RowOps \cup OrderOps)
             PROVE  \/ \E e \in log' : e[2] = op
                    \/ \E r \in Requests : req'[r].pc = "log" /\ req'[r].op = op
                    \/ op \in lost'
  BY Zenon DEF LogTold, RowOps, OrderOps
<1>1. CASE op \in won
  <2>1. \/ \E e \in log : e[2] = op
        \/ \E r \in Requests : req[r].pc = "log" /\ req[r].op = op
        \/ op \in lost
    BY <1>1 DEF LogTold
  <2> QED BY <1>1, <2>1
<1>2. CASE op \notin won
  BY <1>2
<1> QED BY <1>1, <1>2

\* A request that is not at its log entry acts, and nothing is won or logged.
LEMMA ToldElsewhere ==
  ASSUME LogTold, NEW r \in Requests, UNCHANGED <<log, won, lost>>, req[r].pc # "log",
         \A s \in Requests \ {r} : req'[s] = req[s]
  PROVE  LogTold'
BY ToldKept

\* A request wins and goes on to its log entry.
LEMMA ToldWins ==
  ASSUME ConsoleInv, LogTold, NEW r \in Requests, UNCHANGED <<log, lost>>, req[r].pc = "act",
         won' = won \cup {req[r].op}, Goto(r, "log")
  PROVE  LogTold'
<1>1. /\ \A s \in Requests \ {r} : req'[s] = req[s]
      /\ req'[r].pc = "log" /\ req'[r].op = req[r].op
  <2>1. req[r] # Idle
    BY DEF Idle
  <2> QED BY <2>1, LogNext
<1> QED BY <1>1, ToldKept

\* No step leaves a deletion or a move out of the log in silence, but for a
\* write of the log that fails.
LEMMA ToldStep == ConsoleInv /\ LogTold /\ [Next]_vars => LogTold'
<1> SUFFICES ASSUME ConsoleInv, LogTold, [Next]_vars PROVE LogTold'
  OBVIOUS
<1>0. DOMAIN req = Requests
  BY DEF ConsoleInv, TypeOK
<1>f. \A r \in Requests : req[r] = Idle => req[r].pc = "idle"
  BY DEF Idle
<1>e. ASSUME NEW r \in Requests, NEW q, req' = [req EXCEPT ![r] = q]
      PROVE  \A s \in Requests \ {r} : req'[s] = req[s]
  BY <1>0, <1>e
<1>1. ASSUME NEW r \in Requests, NEW t \in Tokens, LoginRead(r, t) PROVE LogTold'
  <2>1. UNCHANGED <<log, won, lost>> /\ req[r].pc # "log"
    BY <1>1, <1>f DEF LoginRead, NoRace
  <2> QED BY <1>1, <1>e, <2>1, ToldElsewhere DEF LoginRead, Begin
<1>2. ASSUME NEW r \in Requests, NEW t \in Tokens, NEW op \in Ops, Authorize(r, t, op)
      PROVE  LogTold'
  <2>1. UNCHANGED <<log, won, lost>> /\ req[r].pc # "log"
    BY <1>2, <1>f DEF Authorize, NoRace
  <2> QED BY <1>2, <1>e, <2>1, ToldElsewhere DEF Authorize, Begin
<1>3. ASSUME NEW r \in Requests, LoginInsert(r) PROVE LogTold'
  <2>1. UNCHANGED <<log, won, lost>> /\ req[r].pc # "log"
    BY <1>3 DEF LoginInsert, NoRace
  <2> QED BY <1>3, <1>0, <2>1, ToldElsewhere DEF LoginInsert, Goto
<1>4. ASSUME NEW r \in Requests, Logout(r) PROVE LogTold'
  <2> DEFINE t == req[r].token
  <2>1. /\ req[r].pc = "act" /\ won' = won \cup {<<"logout", t>>} /\ UNCHANGED <<log, lost>>
        /\ req' = [Overtaken({t}) EXCEPT ![r] = Idle]
    BY <1>4 DEF Logout, Acting, Wins
  <2>2. <<"logout", t>> \notin RowOps \cup OrderOps
    BY DEF RowOps, OrderOps
  <2>3. \A s \in Requests : req[s].pc = "log" => req'[s] = req[s]
    BY <2>1 DEF Overtaken, Running
  <2> HIDE DEF t
  <2> QED BY <2>1, <2>2, <2>3, ToldKept
<1>5. ASSUME NEW r \in Requests, NEW k \in Kinds, WriteRow(r, k) PROVE LogTold'
  <2>1. /\ req[r].pc = "act" /\ UNCHANGED <<log, lost>> /\ Goto(r, "log")
        /\ won' = won \/ won' = won \cup {req[r].op}
    BY <1>5 DEF WriteRow, CreateRow, UpdateRow, DeleteRow, PutRow, Acting, NoRace, Wins
  <2>2. CASE won' = won
    BY <1>0, <2>1, <2>2, ToldElsewhere DEF Goto
  <2> QED BY <2>1, <2>2, ToldWins
<1>6. ASSUME NEW r \in Requests, NEW k \in Kinds, ListRows(r, k) PROVE LogTold'
  <2>1. UNCHANGED <<log, won, lost>> /\ req[r].pc # "log"
    BY <1>6 DEF ListRows, Acting, NoRace
  <2> QED BY <1>6, <1>0, <2>1, ToldElsewhere DEF ListRows
<1>7. ASSUME NEW r \in Requests, CreateWorkOrder(r) PROVE LogTold'
  <2>1. UNCHANGED <<log, won, lost>> /\ req[r].pc # "log"
    BY <1>7 DEF CreateWorkOrder, Acting, NoRace
  <2> QED BY <1>7, <1>0, <2>1, ToldElsewhere DEF CreateWorkOrder, Goto
<1>8. ASSUME NEW r \in Requests, UpdateWorkOrderStatus(r) PROVE LogTold'
  <2>1. /\ req[r].pc = "act" /\ UNCHANGED <<log, lost>> /\ Goto(r, "log")
        /\ won' = won \cup {req[r].op}
    BY <1>8 DEF UpdateWorkOrderStatus, ActingAny, Wins
  <2> QED BY <2>1, ToldWins
<1>9. ASSUME NEW r \in Requests, NEW swapped \in BOOLEAN, WorkOrderPage(r, swapped) PROVE LogTold'
  <2>1. UNCHANGED <<log, won, lost>> /\ req[r].pc # "log"
    BY <1>9 DEF WorkOrderPage, ActingAny, NoRace
  <2> QED BY <1>9, <1>0, <2>1, ToldElsewhere DEF WorkOrderPage
<1>10. ASSUME NEW r \in Requests, CountPage(r) PROVE LogTold'
  <2>1. UNCHANGED <<log, won, lost>> /\ req[r].pc # "log"
    BY <1>10 DEF CountPage, NoRace
  <2> QED BY <1>10, <1>0, <2>1, ToldElsewhere DEF CountPage
<1>11. ASSUME NEW r \in Requests, NextPage(r) PROVE LogTold'
  <2>1. UNCHANGED <<log, won, lost>> /\ req[r].pc # "log"
    BY <1>11 DEF NextPage, NoRace
  <2> QED BY <1>11, <1>e, <2>1, ToldElsewhere DEF NextPage, Begin
<1>12. ASSUME NEW r \in Requests, WriteLog(r) PROVE LogTold'
  <2>1. /\ log' = log \cup ({Me(r)} \X ({req[r].op} \cap Ops)) /\ UNCHANGED <<won, lost>>
        /\ \A s \in Requests \ {r} : req'[s] = req[s]
    BY <1>12, <1>0 DEF WriteLog, Logged, End, NoRace
  <2>2. req[r].op \in RowOps \cup OrderOps => \E e \in log' : e[2] = req[r].op
    <3> SUFFICES ASSUME req[r].op \in RowOps \cup OrderOps PROVE \E e \in log' : e[2] = req[r].op
      OBVIOUS
    <3>1. <<Me(r), req[r].op>> \in log'
      BY <2>1 DEF Ops
    <3> QED BY <3>1
  <2> QED BY <2>1, <2>2, ToldKept
<1>13. ASSUME NEW r \in Requests, Fail(r) PROVE LogTold'
  <2>1. /\ UNCHANGED <<log, won>> /\ \A s \in Requests \ {r} : req'[s] = req[s]
    BY <1>13, <1>0 DEF Fail, AnswerFailed, End
  <2>2. lost \subseteq lost' /\ (req[r].pc = "log" /\ req[r].op \in won => req[r].op \in lost')
    BY <1>13 DEF Fail
  <2> QED BY <2>1, <2>2, ToldKept
<1>14. ASSUME NEW ts, req' = Overtaken(ts), UNCHANGED <<log, won, lost>> PROVE LogTold'
  <2>1. \A s \in Requests : req[s].pc = "log" => req'[s] = req[s]
    BY <1>14 DEF Overtaken, Running
  <2> QED BY <1>14, <2>1, ToldKept
<1>15. ASSUME NEW t \in Tokens, Expire(t) PROVE LogTold'
  BY <1>14, <1>15 DEF Expire, NoRace
<1>16. ASSUME NEW u \in Users, Disable(u) PROVE LogTold'
  BY <1>14, <1>16 DEF Disable, NoRace
<1>17. CASE UNCHANGED vars
  BY <1>17 DEF vars, LogTold
<1>18. ASSUME NEW r \in Requests, Act(r) PROVE LogTold'
  BY <1>4, <1>5, <1>6, <1>7, <1>8, <1>9, <1>18
  DEF Act, AcousticBuoyWrites, ArrayOperatorWrites, TreatmentWrites, AcousticBuoyPage,
      ArrayOperatorPage, TreatmentPage
<1> QED BY <1>1, <1>2, <1>3, <1>10, <1>11, <1>12, <1>13, <1>15, <1>16, <1>17, <1>18 DEF Next

\* Requests that race end as one of them alone would have, the log says nothing
\* that was not done, and of the deletions and moves that were it leaves out only
\* those whose entry could not be written.
THEOREM RacesEnd == Spec => []RacesSettled
<1>1. Init => LogTold
  BY DEF Init, LogTold
<1>2. ConsoleInv /\ LogTold => RacesSettled
  BY DEF ConsoleInv, RacesSettled
<1>3. ConsoleInv /\ LogTold /\ [Next]_vars => ConsoleInv' /\ LogTold'
  BY ConsoleStep, ToldStep
<1> QED BY <1>1, <1>2, <1>3, ConsoleInit, PTL DEF Spec

\* Pages, lists and their totals fit together for pages of any size, and a client
\* that reads all pages misses no order that was there when it began.
THEOREM PagesFit == Spec => []PagesAgree
<1>1. ConsoleInv => PagesAgree
  <2> SUFFICES ASSUME ConsoleInv PROVE PagesAgree
    OBVIOUS
  <2>1. \A r \in Requests : req[r].pc = "answered" => req[r] # Idle
    BY DEF Idle
  <2>2. \A r \in Requests : req[r].pc = "answered" /\ req[r].op[1] = "page" => PageRead(req[r])
    BY <2>1 DEF ConsoleInv, Sound
  <2>3. \A r \in Requests : req[r].pc = "answered" /\ req[r].op[1] = "list" => ListRead(req[r])
    BY <2>1 DEF ConsoleInv, Sound
  <2>4. PageWithinTotal /\ SweepComplete
    BY <2>2 DEF PageRead, PageWithinTotal, SweepComplete
  <2>5. ListCurrent
    BY <2>3 DEF ListRead, ListCurrent
  <2> QED BY <2>4, <2>5 DEF PagesAgree
<1> QED BY <1>1, ConsoleSafe, PTL
=============================================================================
