------------------------- MODULE CryptoBillingProofs -------------------------
(***************************************************************************)
(* One payment is one period, for any number of orders, of callbacks       *)
(* handled at once, of failures and of crashes.  The argument goes through *)
(* what CoinGate knows: an order is paid only after its link was given     *)
(* away, and by then createCryptoCheckout has written the order for the    *)
(* last time; so only a claim writes it, and a claim never a paid one.     *)
(*                                                                         *)
(* What else is proved needs a condition, because the code does not keep   *)
(* it without: when no call fails, payments are honoured and renewals are  *)
(* offered; when one activity runs at a time, a payment adds a whole       *)
(* period; and with both, the days paid for are served.                    *)
(***************************************************************************)
EXTENDS CryptoBilling, TLAPS

\* The days and rows that handlers compute with.
Calendar == now \in Nat /\ subs \in Seq(SubRow)

\* What a checkout has left to do may be any list of rows.
IsCheckout(r) == r = [pc |-> r.pc, order |-> r.order, todo |-> r.todo]
CheckoutShape ==
    checkout = [c \in Checkouts |->
        [pc |-> checkout[c].pc, order |-> checkout[c].order, todo |-> checkout[c].todo]]

OrderTypes ==
    /\ order \in [Orders -> OrderRow] /\ activated \in [Orders -> Nat]
    /\ offered \subseteq Orders /\ ipns \subseteq Ipns
    /\ handler \in [Handlers -> HandlerType] /\ CheckoutShape

\* A callback that is being handled was sent, and paid was sent only of an
\* order whose link the user had.
HandledWasSent ==
    \A h \in Handlers :
        handler[h].pc # "idle" => [order |-> handler[h].order, status |-> handler[h].status] \in ipns
PaidWasOffered ==
    \A o \in Orders :
        [order |-> o, status |-> "paid"] \in ipns \/ order[o].status = "paid" => o \in offered

\* The order a checkout works on is stored, is its own, and is not yet offered.
Working(c) == checkout[c].pc \in {"call", "update", "email"}
CheckoutOwnsOrder ==
    /\ \A c \in Checkouts : Working(c) =>
        /\ checkout[c].order \in Orders \ offered
        /\ order[checkout[c].order].status # "none"
    /\ \A c, d \in Checkouts : Working(c) /\ Working(d) /\ c # d => checkout[c].order # checkout[d].order
OfferedIsStored == \A o \in offered : order[o].status # "none"

\* The handler that won the claim of an order, until it has written the period.
Winner(h) == handler[h].pc \in {"base", "find", "write"}
OneWinner ==
    /\ \A h \in Handlers : Winner(h) =>
        order[handler[h].order].status = "paid" /\ activated[handler[h].order] = 0
    /\ \A g, h \in Handlers : Winner(g) /\ Winner(h) /\ g # h => handler[g].order # handler[h].order
ActivatedIsPaid ==
    \A o \in Orders : activated[o] <= 1 /\ (activated[o] > 0 => order[o].status = "paid")

OrderInv ==
    /\ OrderTypes /\ HandledWasSent /\ PaidWasOffered /\ CheckoutOwnsOrder /\ OfferedIsStored
    /\ OneWinner /\ ActivatedIsPaid

BillingInv == Calendar /\ OrderInv

-----------------------------------------------------------------------------
(* What one step of a handler does to its record *)

Same(q, r) == q.order = r.order /\ q.status = r.status

LEMMA BaseIsDay ==
    ASSUME Calendar
    PROVE  Base(subs) \in Nat /\ Base(subs) + Period \in Nat /\ Newest(subs) \in Nat
<1>1. Newest(subs) \in Nat
    BY DEF Calendar, Newest
<1>2. ASSUME Len(subs) # 0 PROVE subs[Len(subs)].end \in Nat
  <2>1. Len(subs) \in 1..Len(subs) /\ subs \in Seq(SubRow)
      BY <1>2 DEF Calendar
  <2>2. subs[Len(subs)] \in SubRow
      BY <2>1
  <2> QED BY <2>2 DEF SubRow
<1>3. Base(subs) \in Nat
    BY <1>1, <1>2 DEF Base, Newest, Calendar
<1> QED BY <1>1, <1>3, BillingAssumption

\* Handler h goes from one await to the next and keeps its callback.
Goes(h, from, to) ==
    handler[h].pc = from /\ handler'[h].pc = to /\ Same(handler'[h], handler[h])

OneHandler(h) ==
    /\ handler' \in [Handlers -> HandlerType]
    /\ \A g \in Handlers \ {h} : handler'[g] = handler[g]

LEMMA HandlerAt ==
    ASSUME handler \in [Handlers -> HandlerType], NEW h \in Handlers, NEW r \in HandlerType,
           handler' = [handler EXCEPT ![h] = r]
    PROVE  OneHandler(h) /\ handler'[h] = r
BY DEF OneHandler

LEMMA IdleIsHandler == IdleHandler \in HandlerType
BY DEF IdleHandler, HandlerType, HandlerPCs, IpnStatuses

LEMMA HandlerEffect ==
    ASSUME Calendar, OrderTypes, NEW h \in Handlers
    PROVE  /\ Deliver(h) => /\ OneHandler(h) /\ handler[h].pc = "idle" /\ handler'[h].pc = "claim"
                            /\ [order |-> handler'[h].order, status |-> handler'[h].status] \in ipns
           /\ Claim(h) => OneHandler(h) /\ Goes(h, "claim",
                  IF Claimable(handler[h].order) /\ handler[h].status = "paid" THEN "base" ELSE "reply")
           /\ ReadBase(h) => /\ OneHandler(h) /\ Goes(h, "base", "find")
                             /\ handler'[h].end = Base(subs) + Period
           /\ FindExisting(h) => /\ OneHandler(h) /\ Goes(h, "find", "write")
                                 /\ handler'[h].end = handler[h].end /\ handler'[h].row = Newest(subs)
           /\ WriteSubscription(h) => OneHandler(h) /\ Goes(h, "write", "user")
           /\ WriteUser(h) => OneHandler(h) /\ Goes(h, "user", "commission")
           /\ Reward(h) => OneHandler(h) /\ Goes(h, "commission", "reply")
           /\ Reply(h) => OneHandler(h) /\ handler[h].pc = "reply" /\ handler'[h] = IdleHandler
<1> DEFINE rec == handler[h]
<1>0. handler \in [Handlers -> HandlerType] /\ rec \in HandlerType /\ ipns \subseteq Ipns
    BY DEF OrderTypes
<1>p. {"claim", "base", "find", "write", "user", "commission", "reply"} \subseteq HandlerPCs
    BY DEF HandlerPCs
<1>g. ASSUME NEW from, NEW p \in HandlerPCs, rec.pc = from,
             handler' = [handler EXCEPT ![h] = [rec EXCEPT !.pc = p]]
      PROVE  OneHandler(h) /\ Goes(h, from, p)
  <2> DEFINE q == [rec EXCEPT !.pc = p]
  <2>1. q \in HandlerType /\ q.pc = p /\ Same(q, rec)
      BY <1>0 DEF HandlerType, Same
  <2> HIDE DEF q
  <2>2. OneHandler(h) /\ handler'[h] = q
      BY <1>g, <1>0, <2>1, HandlerAt DEF q
  <2> QED BY <1>g, <2>1, <2>2 DEF Goes
<1>1. ASSUME Deliver(h)
      PROVE  /\ OneHandler(h) /\ handler[h].pc = "idle" /\ handler'[h].pc = "claim"
             /\ [order |-> handler'[h].order, status |-> handler'[h].status] \in ipns
  <2>1. PICK m \in ipns : handler' =
            [handler EXCEPT ![h] = [rec EXCEPT !.pc = "claim", !.order = m.order, !.status = m.status]]
      BY <1>1 DEF Deliver
  <2> DEFINE q == [rec EXCEPT !.pc = "claim", !.order = m.order, !.status = m.status]
  <2>2. m \in Ipns /\ m = [order |-> m.order, status |-> m.status]
      BY <1>0, <2>1 DEF Ipns
  <2>3. q \in HandlerType /\ q.pc = "claim" /\ q.order = m.order /\ q.status = m.status
      BY <1>0, <1>p, <2>2 DEF HandlerType, Ipns
  <2>4. handler' = [handler EXCEPT ![h] = q]
      BY <2>1
  <2> HIDE DEF q
  <2>5. OneHandler(h) /\ handler'[h] = q
      BY <1>0, <2>3, <2>4, HandlerAt
  <2>6. rec.pc = "idle"
      BY <1>1 DEF Deliver
  <2> QED BY <2>2, <2>3, <2>5, <2>6
<1>2. ASSUME Claim(h)
      PROVE  OneHandler(h) /\ Goes(h, "claim",
                 IF Claimable(rec.order) /\ rec.status = "paid" THEN "base" ELSE "reply")
  <2> DEFINE p == IF Claimable(rec.order) /\ rec.status = "paid" THEN "base" ELSE "reply"
  <2>1. rec.pc = "claim" /\ handler' = [handler EXCEPT ![h] = [rec EXCEPT !.pc = p]]
      BY <1>2 DEF Claim, GoHandler
  <2>2. p \in HandlerPCs
      BY <1>p
  <2> HIDE DEF p
  <2>3. OneHandler(h) /\ Goes(h, "claim", p)
      BY <1>g, <2>1, <2>2
  <2> QED BY <2>3 DEF p
<1>3. ASSUME ReadBase(h)
      PROVE  /\ OneHandler(h) /\ Goes(h, "base", "find")
             /\ handler'[h].end = Base(subs) + Period
  <2> DEFINE later == Base(subs) + Period
             q == [rec EXCEPT !.pc = "find", !.start = now, !.end = later]
  <2>1. rec.pc = "base" /\ handler' = [handler EXCEPT ![h] = q]
      BY <1>3 DEF ReadBase
  <2>2. later \in Nat /\ now \in Nat
      BY BaseIsDay DEF Calendar
  <2> HIDE DEF later
  <2>3. q \in HandlerType /\ q.pc = "find" /\ Same(q, rec) /\ q.end = later
      BY <1>0, <1>p, <2>2 DEF HandlerType, Same
  <2> HIDE DEF q
  <2>4. OneHandler(h) /\ handler'[h] = q
      BY <1>0, <2>1, <2>3, HandlerAt
  <2> QED BY <2>1, <2>3, <2>4 DEF Goes, later
<1>4. ASSUME FindExisting(h)
      PROVE  /\ OneHandler(h) /\ Goes(h, "find", "write")
             /\ handler'[h].end = handler[h].end /\ handler'[h].row = Newest(subs)
  <2> DEFINE i == Newest(subs)
             q == [rec EXCEPT !.pc = "write", !.row = i]
  <2>1. rec.pc = "find" /\ handler' = [handler EXCEPT ![h] = q]
      BY <1>4 DEF FindExisting
  <2>2. i \in Nat
      BY BaseIsDay
  <2> HIDE DEF i
  <2>3. q \in HandlerType /\ q.pc = "write" /\ Same(q, rec) /\ q.end = rec.end /\ q.row = i
      BY <1>0, <1>p, <2>2 DEF HandlerType, Same
  <2> HIDE DEF q
  <2>4. OneHandler(h) /\ handler'[h] = q
      BY <1>0, <2>1, <2>3, HandlerAt
  <2> QED BY <2>1, <2>3, <2>4 DEF Goes, i
<1>5. ASSUME WriteSubscription(h) PROVE OneHandler(h) /\ Goes(h, "write", "user")
  <2>1. rec.pc = "write" /\ handler' = [handler EXCEPT ![h] = [rec EXCEPT !.pc = "user"]]
      BY <1>5 DEF WriteSubscription, GoHandler
  <2> QED BY <2>1, <1>g, <1>p
<1>6. ASSUME WriteUser(h) PROVE OneHandler(h) /\ Goes(h, "user", "commission")
  <2>1. rec.pc = "user" /\ handler' = [handler EXCEPT ![h] = [rec EXCEPT !.pc = "commission"]]
      BY <1>6 DEF WriteUser, GoHandler
  <2> QED BY <2>1, <1>g, <1>p
<1>7. ASSUME Reward(h) PROVE OneHandler(h) /\ Goes(h, "commission", "reply")
  <2>1. rec.pc = "commission" /\ handler' = [handler EXCEPT ![h] = [rec EXCEPT !.pc = "reply"]]
      BY <1>7 DEF Reward, GoHandler
  <2> QED BY <2>1, <1>g, <1>p
<1>8. ASSUME Reply(h) PROVE OneHandler(h) /\ handler[h].pc = "reply" /\ handler'[h] = IdleHandler
  <2>1. rec.pc = "reply" /\ handler' = [handler EXCEPT ![h] = IdleHandler]
      BY <1>8 DEF Reply
  <2> QED BY <2>1, <1>0, IdleIsHandler, HandlerAt
<1> HIDE DEF rec
<1> QED BY <1>1, <1>2, <1>3, <1>4, <1>5, <1>6, <1>7, <1>8, Zenon DEF rec

LEMMA CheckoutRecords ==
    ASSUME NEW r, IsCheckout(r), NEW p, NEW a
    PROVE  [r EXCEPT !.pc = p, !.order = a] = [pc |-> p, order |-> a, todo |-> r.todo]
<1> DEFINE moved == [r EXCEPT !.pc = p]
<1>1. moved = [pc |-> p, order |-> r.order, todo |-> r.todo]
    BY DEF IsCheckout
<1>2. [r EXCEPT !.pc = p, !.order = a] = [moved EXCEPT !.order = a]
    OBVIOUS
<1> HIDE DEF moved
<1>3. [moved EXCEPT !.order = a] = [pc |-> p, order |-> a, todo |-> r.todo]
    BY <1>1
<1> QED BY <1>2, <1>3

LEMMA OrderAt ==
    ASSUME order \in [Orders -> OrderRow], NEW o \in Orders, NEW s \in OrderStatuses,
           order' = [order EXCEPT ![o].status = s]
    PROVE  /\ order' \in [Orders -> OrderRow]
           /\ order'[o].status = s /\ order'[o].renewal = order[o].renewal
           /\ order'[o].created = order[o].created
           /\ \A p \in Orders \ {o} : order'[p] = order[p]
BY DEF OrderRow

\* The invariant says nothing of the other variables.
LEMMA RestIsFree ==
    ASSUME OrderInv, UNCHANGED <<order, offered, ipns, activated, handler, checkout>>
    PROVE  OrderInv'
BY DEF OrderInv, OrderTypes, CheckoutShape, HandledWasSent, PaidWasOffered,
       CheckoutOwnsOrder, Working, OfferedIsStored, OneWinner, Winner, ActivatedIsPaid

\* A checkout that ends, or turns to another subscription, lets go of its order,
\* which may have been offered by then.
LEMMA CheckoutLetsGo ==
    ASSUME OrderInv, NEW c \in Checkouts, NEW pc \in {"idle", "check", "create"}, NEW o, NEW todo,
           checkout' = [checkout EXCEPT ![c] = [pc |-> pc, order |-> o, todo |-> todo]],
           \/ UNCHANGED offered
           \/ Working(c) /\ offered' = offered \cup {checkout[c].order},
           \/ UNCHANGED order
           \/ Working(c) /\ order' = [order EXCEPT ![checkout[c].order].status = "new"],
           UNCHANGED <<ipns, activated, handler>>
    PROVE  OrderInv'
<1> USE DEF OrderInv, OrderTypes, Working
<1>1. checkout'[c] = [pc |-> pc, order |-> o, todo |-> todo] /\ ~Working(c)'
    BY DEF CheckoutShape
<1>2. \A d \in Checkouts \ {c} : checkout'[d] = checkout[d] /\ Working(d)' = Working(d)
    BY DEF CheckoutShape
<1>3. CheckoutShape'
    BY <1>1, <1>2 DEF CheckoutShape
<1>4. Working(c) => checkout[c].order \in Orders \ offered /\ order[checkout[c].order].status # "paid"
    BY DEF CheckoutOwnsOrder, PaidWasOffered
<1>5. /\ order' \in [Orders -> OrderRow]
      /\ \A p \in Orders :
            \/ order'[p].status = order[p].status
            \/ Working(c) /\ p = checkout[c].order /\ order'[p].status = "new"
  <2>1. CASE UNCHANGED order
      BY <2>1
  <2>2. CASE Working(c) /\ order' = [order EXCEPT ![checkout[c].order].status = "new"]
    <3>1. checkout[c].order \in Orders /\ "new" \in OrderStatuses
        BY <2>2, <1>4 DEF OrderStatuses
    <3>2. /\ order' \in [Orders -> OrderRow] /\ order'[checkout[c].order].status = "new"
          /\ \A p \in Orders \ {checkout[c].order} : order'[p] = order[p]
        BY <2>2, <3>1, OrderAt
    <3> QED BY <2>2, <3>2
  <2> QED BY <2>1, <2>2
<1>6. HandledWasSent'
    BY DEF HandledWasSent
<1>7. PaidWasOffered'
    BY <1>5 DEF PaidWasOffered
<1>8. offered' \subseteq Orders /\ offered \subseteq offered'
    BY <1>4
<1>9. CheckoutOwnsOrder'
  <2>1. ASSUME NEW d \in Checkouts, Working(d)'
        PROVE  checkout'[d] = checkout[d] /\ Working(d) /\ d # c
      BY <2>1, <1>1, <1>2
  <2>2. ASSUME NEW d \in Checkouts, Working(d)'
        PROVE  checkout'[d].order \in Orders \ offered' /\ order'[checkout'[d].order].status # "none"
      BY <2>1, <2>2, <1>4, <1>5 DEF CheckoutOwnsOrder
  <2> QED BY <2>1, <2>2 DEF CheckoutOwnsOrder
<1>10. OfferedIsStored'
    BY <1>4, <1>5 DEF OfferedIsStored, CheckoutOwnsOrder
<1>11. \A p \in Orders : order[p].status = "paid" => order'[p].status = "paid"
    BY <1>4, <1>5
<1>12. OneWinner'
  <2>1. \A h \in Handlers : Winner(h) => handler[h].order \in Orders
      BY DEF Winner, HandledWasSent, Ipns
  <2> QED BY <2>1, <1>11 DEF OneWinner, Winner
<1>13. ActivatedIsPaid'
    BY <1>11 DEF ActivatedIsPaid
<1> QED
    BY <1>3, <1>5, <1>6, <1>7, <1>8, <1>9, <1>10, <1>12, <1>13

\* A step of a handler other than the claim and the write.
LEMMA HandlerMovesOn ==
    ASSUME OrderInv, NEW h \in Handlers, OneHandler(h),
           \/ handler'[h].pc = "idle"
           \/ [order |-> handler'[h].order, status |-> handler'[h].status] \in ipns,
           Winner(h)' => Winner(h) /\ Same(handler'[h], handler[h]),
           UNCHANGED <<order, offered, ipns, activated, checkout>>
    PROVE  OrderInv'
<1> USE DEF OrderInv
<1>1. handler' \in [Handlers -> HandlerType] /\ \A g \in Handlers \ {h} : handler'[g] = handler[g]
    BY DEF OneHandler
<1>2. OrderTypes'
    BY <1>1 DEF OrderTypes, CheckoutShape
<1>3. HandledWasSent'
    BY <1>1 DEF HandledWasSent
<1>4. PaidWasOffered' /\ OfferedIsStored' /\ ActivatedIsPaid'
    BY DEF PaidWasOffered, OfferedIsStored, ActivatedIsPaid
<1>5. CheckoutOwnsOrder'
    BY DEF CheckoutOwnsOrder, Working
<1>6. \A g \in Handlers : Winner(g)' => Winner(g) /\ handler'[g].order = handler[g].order
    BY <1>1 DEF Winner, Same
<1>7. OneWinner'
    BY <1>6 DEF OneWinner
<1> QED
    BY <1>2, <1>3, <1>4, <1>5, <1>7

-----------------------------------------------------------------------------
(* The steps *)

LEMMA InitHolds == Init => BillingInv
<1> SUFFICES ASSUME Init PROVE BillingInv
    OBVIOUS
<1> USE DEF Init
<1>1. Calendar
  <2> DEFINE row == [status |-> "ACTIVE", start |-> 0, end |-> Period, grace |-> 0, cancel |-> FALSE]
  <2>1. row \in SubRow
      BY BillingAssumption DEF SubRow
  <2>2. now = 0 /\ (subs = <<>> \/ subs = <<row>>)
      BY Zenon
  <2> HIDE DEF row, Init
  <2>3. <<row>> \in Seq(SubRow) /\ <<>> \in Seq(SubRow) /\ 0 \in Nat
      BY ONLY <2>1
  <2>4. now \in Nat
      BY ONLY <2>2, <2>3
  <2>5. subs \in Seq(SubRow)
      BY ONLY <2>2, <2>3
  <2> QED BY ONLY <2>4, <2>5 DEF Calendar
<1>2. OrderTypes
  <2>1. NoOrder \in OrderRow
      BY DEF NoOrder, OrderRow, OrderStatuses
  <2>2. order \in [Orders -> OrderRow] /\ handler \in [Handlers -> HandlerType]
      BY <2>1, IdleIsHandler
  <2>3. CheckoutShape
      BY DEF CheckoutShape, IdleCheckout
  <2> QED BY <2>2, <2>3 DEF OrderTypes
<1>3. \A h \in Handlers : handler[h].pc = "idle"
    BY DEF IdleHandler
<1>4. \A c \in Checkouts : checkout[c].pc = "idle"
    BY DEF IdleCheckout
<1>5. \A o \in Orders : order[o].status = "none"
    BY DEF NoOrder
<1>6. HandledWasSent /\ OneWinner
    BY <1>3 DEF HandledWasSent, OneWinner, Winner
<1>7. CheckoutOwnsOrder
    BY <1>4 DEF CheckoutOwnsOrder, Working
<1>8. PaidWasOffered /\ OfferedIsStored /\ ActivatedIsPaid
    BY <1>5 DEF PaidWasOffered, OfferedIsStored, ActivatedIsPaid
<1> QED BY <1>1, <1>2, <1>6, <1>7, <1>8 DEF BillingInv, OrderInv

\* The claim makes an order paid only for a paid callback, and then nobody
\* else has won it or turned it into a period.
LEMMA ClaimHolds ==
    ASSUME BillingInv, NEW h \in Handlers, Claim(h)
    PROVE  OrderInv'
<1> DEFINE o == handler[h].order
           status == handler[h].status
<1>0. Calendar /\ OrderInv /\ OrderTypes
    BY DEF BillingInv, OrderInv
<1>1. /\ handler[h].pc = "claim" /\ UNCHANGED <<offered, ipns, activated, checkout>>
      /\ [order |-> o, status |-> status] \in ipns /\ o \in Orders /\ status \in IpnStatuses
    BY <1>0 DEF Claim, OrderInv, OrderTypes, HandledWasSent, Ipns, coingate, history
<1>2. OneHandler(h) /\ Goes(h, "claim",
          IF Claimable(handler[h].order) /\ handler[h].status = "paid" THEN "base" ELSE "reply")
    BY <1>0, HandlerEffect, Zenon
<1>3. CASE ~Claimable(o)
  <2>1. UNCHANGED order
      BY <1>3 DEF Claim
  <2>2. handler'[h].pc = "reply" /\ Same(handler'[h], handler[h])
      BY <1>2, <1>3 DEF Goes
  <2> QED BY <1>0, <1>1, <1>2, <2>1, <2>2, HandlerMovesOn DEF Winner, Same
<1>4. CASE Claimable(o)
  <2> DEFINE pc == IF status = "paid" THEN "base" ELSE "reply"
  <2>1. order' = [order EXCEPT ![o].status = status]
      BY <1>4 DEF Claim
  <2>2. order[o].status # "paid"
      BY <1>4 DEF Claimable
  <2> USE <1>0 DEF OrderInv
  <2>3. /\ order' \in [Orders -> OrderRow]
        /\ order'[o].status = status
        /\ \A p \in Orders \ {o} : order'[p] = order[p]
    <3>1. order \in [Orders -> OrderRow] /\ status \in OrderStatuses
        BY <1>1 DEF OrderTypes, IpnStatuses, OrderStatuses
    <3> HIDE DEF o, status
    <3> QED BY <3>1, <2>1, <1>1, OrderAt
  <2>4. /\ handler' \in [Handlers -> HandlerType]
        /\ handler'[h].pc = pc /\ handler'[h].order = o /\ handler'[h].status = status
        /\ \A g \in Handlers \ {h} : handler'[g] = handler[g]
      BY <1>2, <1>4 DEF OneHandler, Goes, Same
  <2> HIDE DEF o, status, pc
  <2>5. HandledWasSent'
      BY <2>4, <1>1 DEF HandledWasSent
  <2>6. PaidWasOffered'
      BY <2>3, <1>1 DEF PaidWasOffered
  <2>7. status # "none"
      BY <1>1 DEF IpnStatuses
  <2>8. OrderTypes'
      BY <2>3, <2>4, <1>1 DEF OrderTypes, CheckoutShape
  <2>9. CheckoutOwnsOrder' /\ OfferedIsStored'
      BY <2>3, <2>7, <1>1 DEF OrderTypes, CheckoutOwnsOrder, OfferedIsStored, Working
  <2>10. ActivatedIsPaid'
      BY <2>2, <2>3, <1>1 DEF ActivatedIsPaid
  <2>11. OneWinner'
    <3>1. \A g \in Handlers : Winner(g) => handler[g].order \in Orders \ {o}
        BY <2>2 DEF OneWinner, Winner, HandledWasSent, OrderTypes, Ipns
    <3>2. \A g \in Handlers \ {h} : Winner(g)' = Winner(g) /\ handler'[g].order = handler[g].order
        BY <2>4 DEF Winner
    <3>3. Winner(h)' => status = "paid" /\ activated[o] = 0
        BY <2>4, <2>2, <1>1 DEF Winner, pc, ActivatedIsPaid, OrderTypes
    <3> QED BY <3>1, <3>2, <3>3, <2>3, <2>4, <1>1 DEF OneWinner
  <2> QED BY <2>5, <2>6, <2>8, <2>9, <2>10, <2>11
<1> QED BY <1>3, <1>4

\* The winner turns its order into a period for the first time.
LEMMA WriteHolds ==
    ASSUME BillingInv, NEW h \in Handlers, WriteSubscription(h)
    PROVE  OrderInv'
<1> DEFINE o == handler[h].order
<1>0. Calendar /\ OrderInv /\ OrderTypes
    BY DEF BillingInv, OrderInv
<1> USE <1>0 DEF OrderInv
<1>1. /\ UNCHANGED <<order, offered, ipns, checkout>>
      /\ activated' = [activated EXCEPT ![o] = @ + 1]
    BY DEF WriteSubscription, coingate
<1>2. OneHandler(h) /\ Goes(h, "write", "user")
    BY HandlerEffect, Zenon
<1>3. /\ Winner(h) /\ handler' \in [Handlers -> HandlerType]
      /\ handler'[h].pc = "user" /\ handler'[h].order = o /\ handler'[h].status = handler[h].status
      /\ \A g \in Handlers \ {h} : handler'[g] = handler[g]
    BY <1>2 DEF Goes, OneHandler, Same, Winner
<1>4. o \in Orders /\ order[o].status = "paid" /\ activated[o] = 0
    BY <1>3 DEF OneWinner, Winner, HandledWasSent, OrderTypes, Ipns
<1>5. /\ activated' \in [Orders -> Nat] /\ activated'[o] = 1
      /\ \A p \in Orders \ {o} : activated'[p] = activated[p]
    BY <1>1, <1>4 DEF OrderTypes
<1> HIDE DEF o
<1>6. OrderTypes'
    BY <1>1, <1>3, <1>5 DEF OrderTypes, CheckoutShape
<1>7. PaidWasOffered' /\ CheckoutOwnsOrder' /\ OfferedIsStored'
    BY <1>1 DEF PaidWasOffered, CheckoutOwnsOrder, Working, OfferedIsStored
<1>8. HandledWasSent'
    BY <1>1, <1>3 DEF HandledWasSent, Winner, o
<1>9. ActivatedIsPaid'
    BY <1>1, <1>4, <1>5 DEF ActivatedIsPaid
<1>10. OneWinner'
  <2>1. ~Winner(h)' /\ \A g \in Handlers \ {h} : Winner(g)' = Winner(g) /\ handler'[g].order = handler[g].order
      BY <1>3 DEF Winner
  <2>2. \A g \in Handlers \ {h} : Winner(g) => handler[g].order \in Orders \ {o}
      BY <1>3 DEF OneWinner, Winner, HandledWasSent, OrderTypes, Ipns, o
  <2> QED BY <2>1, <2>2, <1>1, <1>5 DEF OneWinner
<1> QED BY <1>6, <1>7, <1>8, <1>9, <1>10

LEMMA HandlerStepHolds ==
    ASSUME BillingInv, NEW h \in Handlers, HandlerStep(h)
    PROVE  OrderInv'
<1>0. Calendar /\ OrderInv /\ OrderTypes
    BY DEF BillingInv, OrderInv
<1> DEFINE Rest == UNCHANGED <<order, offered, ipns, activated, checkout>>
<1>g. ASSUME NEW from, NEW to, OneHandler(h), Goes(h, from, to), from # "idle",
             to \in {"find", "write"} => from \in {"base", "find"}, to # "base", Rest
      PROVE  OrderInv'
  <2>1. [order |-> handler'[h].order, status |-> handler'[h].status] \in ipns
      BY <1>g, <1>0 DEF Goes, Same, OrderInv, HandledWasSent
  <2>2. Winner(h)' => Winner(h) /\ Same(handler'[h], handler[h])
      BY <1>g DEF Goes, Winner
  <2> QED BY <1>0, <1>g, <2>1, <2>2, HandlerMovesOn
<1>1. CASE Deliver(h)
  <2>1. OneHandler(h) /\ handler'[h].pc = "claim" /\
        [order |-> handler'[h].order, status |-> handler'[h].status] \in ipns
      BY <1>0, <1>1, HandlerEffect, Zenon
  <2>2. Rest
      BY <1>1 DEF Deliver, coingate, history
  <2> QED BY <1>0, <2>1, <2>2, HandlerMovesOn DEF Winner
<1>2. CASE Claim(h)
    BY <1>2, ClaimHolds
<1>3. CASE ReadBase(h)
  <2>1. OneHandler(h) /\ Goes(h, "base", "find")
      BY <1>0, <1>3, HandlerEffect, Zenon
  <2>2. Rest
      BY <1>3 DEF ReadBase, coingate, history
  <2> QED BY <2>1, <2>2, <1>g
<1>4. CASE FindExisting(h)
  <2>1. OneHandler(h) /\ Goes(h, "find", "write")
      BY <1>0, <1>4, HandlerEffect, Zenon
  <2>2. Rest
      BY <1>4 DEF FindExisting, coingate, history
  <2> QED BY <2>1, <2>2, <1>g
<1>5. CASE WriteSubscription(h)
    BY <1>5, WriteHolds
<1>6. CASE WriteUser(h)
  <2>1. OneHandler(h) /\ Goes(h, "user", "commission")
      BY <1>0, <1>6, HandlerEffect, Zenon
  <2>2. Rest
      BY <1>6 DEF WriteUser, coingate, history
  <2> QED BY <2>1, <2>2, <1>g
<1>7. CASE Reward(h)
  <2>1. OneHandler(h) /\ Goes(h, "commission", "reply")
      BY <1>0, <1>7, HandlerEffect, Zenon
  <2>2. Rest
      BY <1>7 DEF Reward, coingate, history
  <2> QED BY <2>1, <2>2, <1>g
<1>8. CASE Reply(h)
  <2>1. OneHandler(h) /\ handler'[h].pc = "idle"
    <3>1. OneHandler(h) /\ handler'[h] = IdleHandler
        BY <1>0, <1>8, HandlerEffect, Zenon
    <3> QED BY <3>1 DEF IdleHandler
  <2>2. Rest
      BY <1>8 DEF Reply, coingate, history
  <2> QED BY <1>0, <2>1, <2>2, HandlerMovesOn DEF Winner
<1> QED BY <1>1, <1>2, <1>3, <1>4, <1>5, <1>6, <1>7, <1>8 DEF HandlerStep

\* A new order is nobody else's and has not been offered.
LEMMA CreateRecordHolds ==
    ASSUME BillingInv, NEW c \in Checkouts, CreateRecord(c)
    PROVE  OrderInv'
<1>0. OrderInv /\ OrderTypes /\ now \in Nat
    BY DEF BillingInv, OrderInv, Calendar
<1> USE <1>0 DEF OrderInv
<1>1. PICK o \in Orders :
        /\ order[o].status = "none"
        /\ order' = [order EXCEPT ![o] = [status |-> "new", renewal |-> c = "renewal", created |-> now]]
        /\ checkout' = [checkout EXCEPT ![c] = [@ EXCEPT !.pc = "call", !.order = o]]
    BY DEF CreateRecord
<1>2. UNCHANGED <<offered, ipns, activated, handler>>
    BY DEF CreateRecord, coingate, history
<1>3. /\ order' \in [Orders -> OrderRow]
      /\ order'[o].status = "new" /\ \A p \in Orders \ {o} : order'[p] = order[p]
  <2> DEFINE row == [status |-> "new", renewal |-> c = "renewal", created |-> now]
  <2>1. row \in OrderRow /\ row.status = "new"
      BY DEF OrderRow, OrderStatuses
  <2>2. order' = [order EXCEPT ![o] = row] /\ order \in [Orders -> OrderRow]
      BY <1>1 DEF OrderTypes
  <2> HIDE DEF row
  <2> QED BY <2>1, <2>2
<1>4. /\ CheckoutShape'
      /\ checkout'[c].pc = "call" /\ checkout'[c].order = o
      /\ \A d \in Checkouts \ {c} : checkout'[d] = checkout[d]
  <2> DEFINE r == [checkout[c] EXCEPT !.pc = "call", !.order = o]
  <2>1. checkout' = [checkout EXCEPT ![c] = r]
      BY <1>1
  <2>2. r = [pc |-> "call", order |-> o, todo |-> checkout[c].todo]
      BY CheckoutRecords DEF OrderTypes, CheckoutShape, IsCheckout
  <2> HIDE DEF r
  <2> QED BY <2>1, <2>2 DEF OrderTypes, CheckoutShape
<1>5. o \notin offered
    BY <1>1 DEF OfferedIsStored
<1>6. CheckoutOwnsOrder'
  <2>1. \A d \in Checkouts \ {c} : Working(d)' = Working(d) /\ checkout'[d].order = checkout[d].order
      BY <1>4 DEF Working
  <2>2. \A d \in Checkouts : Working(d) => checkout[d].order \in Orders \ {o}
      BY <1>1 DEF CheckoutOwnsOrder
  <2> QED BY <2>1, <2>2, <1>2, <1>3, <1>4, <1>5 DEF CheckoutOwnsOrder
<1>7. HandledWasSent'
    BY <1>2 DEF HandledWasSent
<1>10. OrderTypes'
    BY <1>2, <1>3, <1>4 DEF OrderTypes
<1>8. PaidWasOffered' /\ OfferedIsStored' /\ ActivatedIsPaid'
    BY <1>1, <1>2, <1>3, <1>5 DEF PaidWasOffered, OfferedIsStored, ActivatedIsPaid
<1>9. OneWinner'
  <2>1. \A h \in Handlers : Winner(h) => handler[h].order \in Orders \ {o}
      BY <1>1 DEF OneWinner, Winner, HandledWasSent, OrderTypes, Ipns
  <2> QED BY <2>1, <1>2, <1>3 DEF OneWinner, Winner
<1> QED BY <1>6, <1>7, <1>8, <1>9, <1>10

\* A checkout that works on its order goes on to another step of the work.
LEMMA CheckoutWorksOn ==
    ASSUME BillingInv, NEW c \in Checkouts, Working(c), NEW pc \in {"update", "email"},
           GoCheckout(c, pc),
           order' \in {order, [order EXCEPT ![checkout[c].order].status = "new"]},
           UNCHANGED <<offered, ipns, activated, handler>>
    PROVE  OrderInv'
<1>0. OrderInv /\ OrderTypes /\ now \in Nat
    BY DEF BillingInv, OrderInv, Calendar
<1> USE <1>0 DEF OrderInv
<1>1. /\ CheckoutShape'
      /\ \A d \in Checkouts : Working(d)' = Working(d) /\ checkout'[d].order = checkout[d].order
    BY DEF GoCheckout, OrderTypes, CheckoutShape, Working
<1>2. checkout[c].order \in Orders \ offered /\ order[checkout[c].order].status # "paid"
    BY DEF CheckoutOwnsOrder, PaidWasOffered
<1>3. /\ order' \in [Orders -> OrderRow]
      /\ \A p \in Orders :
            \/ order'[p].status = order[p].status
            \/ p = checkout[c].order /\ order'[p].status = "new"
  <2>1. CASE order' = order
      BY <2>1 DEF OrderTypes
  <2>2. CASE order' = [order EXCEPT ![checkout[c].order].status = "new"]
    <3>1. order \in [Orders -> OrderRow] /\ checkout[c].order \in Orders /\ "new" \in OrderStatuses
        BY <1>2 DEF OrderTypes, OrderStatuses
    <3>2. /\ order' \in [Orders -> OrderRow] /\ order'[checkout[c].order].status = "new"
          /\ \A p \in Orders \ {checkout[c].order} : order'[p] = order[p]
        BY <2>2, <3>1, OrderAt
    <3> QED BY <3>2
  <2> QED BY <2>1, <2>2
<1>4. OrderTypes' /\ HandledWasSent'
    BY <1>1, <1>3 DEF OrderTypes, HandledWasSent
<1>5. PaidWasOffered' /\ OfferedIsStored'
    BY <1>3 DEF PaidWasOffered, OfferedIsStored, OrderTypes
<1>6. ActivatedIsPaid'
    BY <1>2, <1>3 DEF ActivatedIsPaid
<1>7. CheckoutOwnsOrder'
    BY <1>1, <1>3 DEF CheckoutOwnsOrder
<1>8. OneWinner'
  <2>1. \A h \in Handlers : Winner(h) => handler[h].order \in Orders
      BY DEF Winner, HandledWasSent, OrderTypes, Ipns
  <2> QED BY <2>1, <1>2, <1>3 DEF OneWinner, Winner
<1> QED BY <1>1, <1>3, <1>4, <1>5, <1>6, <1>7, <1>8

LEMMA CheckoutStepHolds ==
    ASSUME BillingInv, CheckoutStep
    PROVE  OrderInv'
<1>i. OrderInv
    BY DEF BillingInv
<1> USE <1>i DEF world, coingate, history
<1> DEFINE Rest == UNCHANGED <<order, offered, ipns, activated, handler>>
           LetsGo(c) == \E pc \in {"idle", "check", "create"} : \E o, todo :
               checkout' = [checkout EXCEPT ![c] = [pc |-> pc, order |-> o, todo |-> todo]]
<1>0. /\ \A todo : \E pc \in {"idle", "check"} : \E o, left :
            Renew(todo) = [pc |-> pc, order |-> o, todo |-> left]
      /\ IdleCheckout = [pc |-> "idle", order |-> None, todo |-> <<>>]
    BY DEF Renew, IdleCheckout
<1>1. CASE BeginCheckout
  <2> DEFINE rec == checkout["client"]
  <2>1. checkout' = [checkout EXCEPT !["client"] = [rec EXCEPT !.pc = "create"]] /\ Rest
      BY <1>1 DEF BeginCheckout, GoCheckout
  <2>2. [rec EXCEPT !.pc = "create"] = [pc |-> "create", order |-> rec.order, todo |-> rec.todo]
      BY <1>i DEF OrderInv, OrderTypes, CheckoutShape, Checkouts
  <2> QED BY <2>1, <2>2, CheckoutLetsGo DEF Checkouts
<1>2. CASE BeginRenewals
  <2>1. PICK rows : checkout' = [checkout EXCEPT !["renewal"] = Renew(rows)]
      BY <1>2 DEF BeginRenewals
  <2>2. Rest
      BY <1>2 DEF BeginRenewals
  <2> QED BY <2>1, <2>2, <1>0, CheckoutLetsGo DEF Checkouts
<1>3. CASE CheckPending
  <2> DEFINE rec == checkout["renewal"]
             r == IF \E o \in Orders : PendingRenewal(o, Head(rec.todo).start)
                  THEN Renew(Tail(rec.todo)) ELSE [rec EXCEPT !.pc = "create"]
  <2>1. checkout' = [checkout EXCEPT !["renewal"] = r] /\ Rest
      BY <1>3 DEF CheckPending
  <2>2. [rec EXCEPT !.pc = "create"] = [pc |-> "create", order |-> rec.order, todo |-> rec.todo]
      BY <1>i DEF OrderInv, OrderTypes, CheckoutShape, Checkouts
  <2>3. PICK pc \in {"idle", "check", "create"} :
            \E o, todo : r = [pc |-> pc, order |-> o, todo |-> todo]
      BY <2>2, <1>0
  <2>4. PICK o, todo : r = [pc |-> pc, order |-> o, todo |-> todo]
      BY <2>3
  <2> HIDE DEF r
  <2> QED BY <2>1, <2>4, CheckoutLetsGo DEF Checkouts
<1>4. CASE SendEmail
  <2> DEFINE rec == checkout["renewal"]
  <2>1. /\ checkout' = [checkout EXCEPT !["renewal"] = Renew(Tail(rec.todo))]
        /\ Working("renewal") /\ offered' = offered \cup {rec.order}
        /\ UNCHANGED <<order, ipns, activated, handler>>
      BY <1>4 DEF SendEmail, Working
  <2> QED BY <2>1, <1>0, CheckoutLetsGo DEF Checkouts
<1>5. ASSUME NEW c \in Checkouts, CreateRecord(c) PROVE OrderInv'
    BY <1>5, CreateRecordHolds
<1>6. ASSUME NEW c \in Checkouts, CreateOrder(c) PROVE OrderInv'
  <2>1. Working(c) /\ GoCheckout(c, "update") /\ Rest
      BY <1>6 DEF CreateOrder, Working
  <2> QED BY <2>1, CheckoutWorksOn
<1>7. ASSUME NEW c \in Checkouts, StoreUrl(c) PROVE OrderInv'
  <2>1. /\ Working(c) /\ order' = [order EXCEPT ![checkout[c].order].status = "new"]
        /\ UNCHANGED <<ipns, activated, handler>>
      BY <1>7 DEF StoreUrl, Working, StoredStatus
  <2>2. CASE c = "client"
    <3>1. /\ offered' = offered \cup {checkout[c].order}
          /\ checkout' = [checkout EXCEPT ![c] = [pc |-> "idle", order |-> None, todo |-> <<>>]]
        BY <1>7, <2>2, <1>0 DEF StoreUrl
    <3> QED BY <2>1, <3>1, CheckoutLetsGo
  <2>3. CASE c # "client"
    <3>1. GoCheckout(c, "email") /\ UNCHANGED offered
        BY <1>7, <2>3 DEF StoreUrl
    <3> QED BY <2>1, <3>1, CheckoutWorksOn
  <2> QED BY <2>2, <2>3
<1> QED BY <1>1, <1>2, <1>3, <1>4, <1>5, <1>6, <1>7 DEF CheckoutStep

\* A callback that is sent asks for nothing but that the link of a paid order was out.
LEMMA SentHolds ==
    ASSUME OrderInv, UNCHANGED <<order, offered, activated, handler, checkout>>,
           ipns \subseteq ipns', ipns' \subseteq Ipns,
           \A p \in Orders : [order |-> p, status |-> "paid"] \in ipns' \ ipns => p \in offered
    PROVE  OrderInv'
<1> USE DEF OrderInv
<1>1. OrderTypes'
    BY DEF OrderTypes, CheckoutShape
<1>2. HandledWasSent'
    BY DEF HandledWasSent
<1>3. PaidWasOffered'
    BY DEF PaidWasOffered
<1>4. CheckoutOwnsOrder' /\ OfferedIsStored'
    BY DEF CheckoutOwnsOrder, Working, OfferedIsStored
<1>5. OneWinner' /\ ActivatedIsPaid'
    BY DEF OneWinner, Winner, ActivatedIsPaid
<1> QED BY <1>1, <1>2, <1>3, <1>4, <1>5

LEMMA PayHolds ==
    ASSUME OrderInv, NEW o \in Orders, Pay(o)
    PROVE  OrderInv'
<1>1. /\ o \in offered /\ UNCHANGED <<order, offered, activated, handler, checkout>>
      /\ ipns' = ipns \cup {[order |-> o, status |-> s] : s \in {"pending", "paid"}}
    BY DEF Pay, Send, history
<1>2. ipns \subseteq ipns' /\ ipns' \subseteq Ipns
    BY <1>1 DEF OrderInv, OrderTypes, Ipns, IpnStatuses
<1>3. \A p \in Orders : [order |-> p, status |-> "paid"] \in ipns' \ ipns => p \in offered
    BY <1>1
<1> QED BY <1>1, <1>2, <1>3, SentHolds

LEMMA AwaitHolds ==
    ASSUME OrderInv, NEW o \in Orders, AwaitPayment(o)
    PROVE  OrderInv'
<1>1. /\ UNCHANGED <<order, offered, activated, handler, checkout>>
      /\ ipns' = ipns \cup {[order |-> o, status |-> "pending"]}
    BY DEF AwaitPayment, Send, history
<1>2. ipns \subseteq ipns' /\ ipns' \subseteq Ipns
    BY <1>1 DEF OrderInv, OrderTypes, Ipns, IpnStatuses
<1>3. \A p \in Orders : [order |-> p, status |-> "paid"] \notin ipns' \ ipns
    BY <1>1
<1> QED BY <1>1, <1>2, <1>3, SentHolds

LEMMA ExpireHolds ==
    ASSUME OrderInv, NEW o \in Orders, Expire(o)
    PROVE  OrderInv'
<1>1. /\ UNCHANGED <<order, offered, activated, handler, checkout>>
      /\ ipns' = ipns \cup {[order |-> o, status |-> "expired"]}
    BY DEF Expire, Send, history
<1>2. ipns \subseteq ipns' /\ ipns' \subseteq Ipns
    BY <1>1 DEF OrderInv, OrderTypes, Ipns, IpnStatuses
<1>3. \A p \in Orders : [order |-> p, status |-> "paid"] \notin ipns' \ ipns
    BY <1>1
<1> QED BY <1>1, <1>2, <1>3, SentHolds

LEMMA FailureHolds ==
    ASSUME OrderInv, Failure
    PROVE  OrderInv'
<1>1. UNCHANGED <<order, offered, ipns, activated>>
    BY DEF Failure, coingate, history
<1>2. CASE \E h \in Handlers : handler' = [handler EXCEPT ![h] = IdleHandler] /\ UNCHANGED checkout
  <2>1. PICK h \in Handlers : handler' = [handler EXCEPT ![h] = IdleHandler] /\ UNCHANGED checkout
      BY <1>2
  <2>2. OneHandler(h) /\ handler'[h] = IdleHandler
      BY <2>1, IdleIsHandler, HandlerAt DEF OrderInv, OrderTypes
  <2>3. handler'[h].pc = "idle" /\ ~Winner(h)'
      BY <2>2 DEF IdleHandler, Winner
  <2> QED BY <1>1, <2>1, <2>2, <2>3, HandlerMovesOn
<1>3. CASE \E c \in Checkouts :
             /\ checkout' = [checkout EXCEPT ![c] =
                    IF @.todo = <<>> \/ @.pc = "check" THEN IdleCheckout ELSE Renew(Tail(@.todo))]
             /\ UNCHANGED handler
  <2>1. PICK c \in Checkouts :
             /\ checkout' = [checkout EXCEPT ![c] =
                    IF @.todo = <<>> \/ @.pc = "check" THEN IdleCheckout ELSE Renew(Tail(@.todo))]
             /\ UNCHANGED handler
      BY <1>3
  <2>2. PICK pc \in {"idle", "check"} : \E o, todo :
            checkout' = [checkout EXCEPT ![c] = [pc |-> pc, order |-> o, todo |-> todo]]
      BY <2>1 DEF IdleCheckout, Renew
  <2>3. PICK o, todo :
            checkout' = [checkout EXCEPT ![c] = [pc |-> pc, order |-> o, todo |-> todo]]
      BY <2>2
  <2> QED BY <1>1, <2>1, <2>3, CheckoutLetsGo
<1>4. CASE UNCHANGED <<handler, checkout>>
    BY <1>1, <1>4, RestIsFree
<1> QED BY <1>2, <1>3, <1>4 DEF Failure

LEMMA CrashHolds ==
    ASSUME OrderInv, Crash
    PROVE  OrderInv'
<1> USE DEF OrderInv
<1>1. /\ UNCHANGED <<order, offered, ipns, activated>>
      /\ handler' = [h \in Handlers |-> IdleHandler]
      /\ checkout' = [c \in Checkouts |-> IdleCheckout]
    BY DEF Crash, coingate, history
<1>2. OrderTypes'
  <2>1. CheckoutShape'
      BY <1>1 DEF CheckoutShape, IdleCheckout
  <2> QED BY <1>1, <2>1, IdleIsHandler DEF OrderTypes
<1>3. HandledWasSent' /\ OneWinner'
    BY <1>1 DEF IdleHandler, HandledWasSent, OneWinner, Winner
<1>4. CheckoutOwnsOrder'
    BY <1>1 DEF IdleCheckout, CheckoutOwnsOrder, Working
<1>5. PaidWasOffered' /\ OfferedIsStored' /\ ActivatedIsPaid'
    BY <1>1 DEF PaidWasOffered, OfferedIsStored, ActivatedIsPaid
<1> QED BY <1>2, <1>3, <1>4, <1>5

\* A row of the subscriptions is written.
LEMMA RowWritten ==
    ASSUME NEW s \in Seq(SubRow), NEW i, NEW r, i \in DOMAIN s => r \in SubRow
    PROVE  /\ [s EXCEPT ![i] = r] \in Seq(SubRow) /\ Len([s EXCEPT ![i] = r]) = Len(s)
           /\ i \in DOMAIN s => [s EXCEPT ![i] = r][i] = r
<1>1. CASE i \in DOMAIN s
    BY <1>1
<1>2. CASE i \notin DOMAIN s
  <2>1. [s EXCEPT ![i] = r] = s
      BY <1>2
  <2> QED BY <1>2, <2>1
<1> QED BY <1>1, <1>2

\* A day passes in a tick only.
LEMMA DaysPass == ASSUME [Next]_vars PROVE now' \in {now, now + 1}
<1>1. ASSUME NEW h \in Handlers, HandlerStep(h) PROVE now' = now
    BY <1>1 DEF HandlerStep, Deliver, Claim, ReadBase, FindExisting, WriteSubscription, WriteUser,
       Reward, Reply, world
<1>2. ASSUME NEW o \in Orders, Pay(o) \/ AwaitPayment(o) \/ Expire(o) PROVE now' = now
    BY <1>2 DEF Pay, AwaitPayment, Expire, world
<1>3. CASE CheckoutStep
    BY <1>3 DEF CheckoutStep, BeginCheckout, BeginRenewals, CheckPending, SendEmail, CreateOrder,
       CreateRecord, StoreUrl, world
<1>4. CASE CronStep
    BY <1>4 DEF CronStep, ListExpired, FailRow, SuspendUser, ListGraceExpired, MarkUnpaid,
       DeactivateUser, world
<1>5. CASE \E value \in BOOLEAN : SetCancel(value)
    BY <1>5 DEF SetCancel, world
<1>6. CASE Tick \/ Failure \/ Crash \/ UNCHANGED vars
    BY <1>6 DEF Tick, Failure, Crash, vars, world
<1> QED BY <1>1, <1>2, <1>3, <1>4, <1>5, <1>6 DEF Next

\* Who writes the subscriptions.
LEMMA SubsWriters ==
    ASSUME [Next]_vars
    PROVE  \/ subs' = subs
           \/ \E h \in Handlers : WriteSubscription(h)
           \/ \E value \in BOOLEAN : SetCancel(value)
           \/ FailRow \/ MarkUnpaid
<1>1. ASSUME NEW h \in Handlers, HandlerStep(h), ~WriteSubscription(h) PROVE subs' = subs
    BY <1>1 DEF HandlerStep, Deliver, Claim, ReadBase, FindExisting, WriteUser, Reward, Reply
<1>2. ASSUME NEW o \in Orders, Pay(o) \/ AwaitPayment(o) \/ Expire(o) PROVE subs' = subs
    BY <1>2 DEF Pay, AwaitPayment, Expire
<1>3. ASSUME CheckoutStep PROVE subs' = subs
    BY <1>3 DEF CheckoutStep, BeginCheckout, BeginRenewals, CheckPending, SendEmail, CreateOrder,
       CreateRecord, StoreUrl
<1>4. ASSUME CronStep, ~FailRow, ~MarkUnpaid PROVE subs' = subs
    BY <1>4 DEF CronStep, ListExpired, SuspendUser, ListGraceExpired, DeactivateUser
<1>5. ASSUME Tick \/ Failure \/ Crash \/ UNCHANGED vars PROVE subs' = subs
    BY <1>5 DEF Tick, Failure, Crash, vars
<1> QED BY <1>1, <1>2, <1>3, <1>4, <1>5 DEF Next

LEMMA CalendarHolds ==
    ASSUME BillingInv, [Next]_vars
    PROVE  Calendar'
<1>0. now \in Nat /\ subs \in Seq(SubRow)
    BY DEF BillingInv, Calendar
<1>r. ASSUME NEW i \in DOMAIN subs PROVE subs[i] \in SubRow
    BY <1>0
<1>1. CASE subs' = subs
  <2>1. now' \in {now, now + 1}
      BY DaysPass
  <2> QED BY <1>0, <1>1, <2>1 DEF Calendar
<1>2. ASSUME NEW h \in Handlers, WriteSubscription(h) PROVE Calendar'
  <2> DEFINE i == handler[h].row
             start == handler[h].start
             end == handler[h].end
             first == [status |-> "ACTIVE", start |-> start, end |-> end, grace |-> 0, cancel |-> FALSE]
             r == [subs[i] EXCEPT !.status = "ACTIVE", !.start = start, !.end = end, !.grace = 0]
  <2>1. start \in Nat /\ end \in Nat /\ i \in Nat
    <3>1. handler[h] \in HandlerType
        BY DEF BillingInv, OrderInv, OrderTypes
    <3> QED BY <3>1 DEF HandlerType
  <2>2. now' = now /\ subs' = IF i = 0 THEN Append(subs, first) ELSE [subs EXCEPT ![i] = r]
      BY <1>2 DEF WriteSubscription, world
  <2>3. first \in SubRow
      BY <2>1 DEF SubRow
  <2>4. i \in DOMAIN subs => r \in SubRow
      BY <1>r, <2>1 DEF SubRow
  <2> HIDE DEF i, first, r
  <2>5. Append(subs, first) \in Seq(SubRow)
      BY <1>0, <2>3
  <2>6. [subs EXCEPT ![i] = r] \in Seq(SubRow)
      BY <1>0, <2>4, RowWritten
  <2> QED BY <1>0, <2>2, <2>5, <2>6 DEF Calendar
<1>3. ASSUME NEW value \in BOOLEAN, SetCancel(value) PROVE Calendar'
  <2> DEFINE r == [subs[Len(subs)] EXCEPT !.cancel = value]
  <2>1. now' = now /\ subs' = [subs EXCEPT ![Len(subs)] = r]
      BY <1>3 DEF SetCancel, world
  <2>2. Len(subs) \in DOMAIN subs => r \in SubRow
      BY <1>r DEF SubRow
  <2> HIDE DEF r
  <2> QED BY <1>0, <2>1, <2>2, RowWritten DEF Calendar
<1>4. CASE FailRow
  <2> DEFINE i == NextRow
             late == [subs[i] EXCEPT !.status = "PAST_DUE"]
             marked == [subs EXCEPT ![i] = late]
             r == [marked[i] EXCEPT !.grace = now + Grace]
  <2>1. now' = now /\ subs' = [marked EXCEPT ![i] = r]
      BY <1>4 DEF FailRow, world
  <2>2. i \in DOMAIN subs => late \in SubRow
      BY <1>r DEF SubRow
  <2>3. now + Grace \in Nat
      BY <1>0, BillingAssumption
  <2> HIDE DEF i, late
  <2>4. marked \in Seq(SubRow) /\ Len(marked) = Len(subs)
      BY <1>0, <2>2, RowWritten
  <2> HIDE DEF marked
  <2>5. i \in DOMAIN marked => r \in SubRow
    <3>1. i \in DOMAIN marked => marked[i] \in SubRow
        BY <2>4
    <3> QED BY <2>3, <3>1 DEF SubRow
  <2> HIDE DEF r
  <2> QED BY <1>0, <2>1, <2>4, <2>5, RowWritten DEF Calendar
<1>5. CASE MarkUnpaid
  <2> DEFINE i == NextRow
             r == [subs[i] EXCEPT !.status = "UNPAID"]
  <2>1. now' = now /\ subs' = [subs EXCEPT ![i] = r]
      BY <1>5 DEF MarkUnpaid, world
  <2>2. i \in DOMAIN subs => r \in SubRow
      BY <1>r DEF SubRow
  <2> HIDE DEF i, r
  <2> QED BY <1>0, <2>1, <2>2, RowWritten DEF Calendar
<1> QED BY <1>1, <1>2, <1>3, <1>4, <1>5, SubsWriters

LEMMA NextHolds == BillingInv /\ [Next]_vars => BillingInv'
<1> SUFFICES ASSUME BillingInv, [Next]_vars PROVE OrderInv'
    BY CalendarHolds DEF BillingInv
<1>0. OrderInv
    BY DEF BillingInv
<1>1. ASSUME NEW h \in Handlers, HandlerStep(h) PROVE OrderInv'
    BY <1>1, HandlerStepHolds
<1>2. ASSUME NEW o \in Orders, Pay(o) \/ AwaitPayment(o) \/ Expire(o) PROVE OrderInv'
    BY <1>0, <1>2, PayHolds, AwaitHolds, ExpireHolds
<1>3. ASSUME NEW value \in BOOLEAN, SetCancel(value) PROVE OrderInv'
    BY <1>0, <1>3, RestIsFree DEF SetCancel, coingate, history
<1>4. CASE CheckoutStep
    BY <1>4, CheckoutStepHolds
<1>5. CASE CronStep
  <2>1. UNCHANGED <<order, offered, ipns, activated, handler, checkout>>
      BY <1>5 DEF CronStep, ListExpired, FailRow, SuspendUser, ListGraceExpired, MarkUnpaid,
         DeactivateUser, coingate, history
  <2> QED BY <1>0, <2>1, RestIsFree
<1>6. CASE Tick
    BY <1>0, <1>6, RestIsFree DEF Tick, coingate, history
<1>7. CASE Failure
    BY <1>0, <1>7, FailureHolds
<1>8. CASE Crash
    BY <1>0, <1>8, CrashHolds
<1>9. CASE UNCHANGED vars
    BY <1>0, <1>9, RestIsFree DEF vars, coingate, history
<1> QED BY <1>1, <1>2, <1>3, <1>4, <1>5, <1>6, <1>7, <1>8, <1>9 DEF Next

\* The inductive invariant of CryptoBilling.
THEOREM BillingInvariant == Spec => []BillingInv
BY InitHolds, NextHolds, PTL DEF Spec

-----------------------------------------------------------------------------
(* The properties that hold whatever fails *)

\* Duplicated, reordered and retried callbacks, handled by any number of
\* requests at once, turn a payment into one period at most
\* (handleCoinGateIpn's atomic claim).
THEOREM PaymentActivatesOnce == Spec => []ActivatedOnce
<1>1. BillingInv => ActivatedOnce
    BY DEF BillingInv, OrderInv, ActivatedIsPaid, ActivatedOnce
<1> QED BY <1>1, BillingInvariant, PTL

\* Who writes an order, and that nobody takes a paid one back.
LEMMA OrderWriters ==
    ASSUME [Next]_vars
    PROVE  \/ order' = order
           \/ \E h \in Handlers : Claim(h)
           \/ \E c \in Checkouts : CreateRecord(c) \/ StoreUrl(c)
<1>1. ASSUME NEW h \in Handlers, HandlerStep(h), ~Claim(h) PROVE order' = order
    BY <1>1 DEF HandlerStep, Deliver, ReadBase, FindExisting, WriteSubscription, WriteUser, Reward, Reply
<1>2. ASSUME NEW p \in Orders, Pay(p) \/ AwaitPayment(p) \/ Expire(p) PROVE order' = order
    BY <1>2 DEF Pay, AwaitPayment, Expire
<1>3. ASSUME CheckoutStep, ~ \E c \in Checkouts : CreateRecord(c) \/ StoreUrl(c) PROVE order' = order
    BY <1>3 DEF CheckoutStep, BeginCheckout, BeginRenewals, CheckPending, SendEmail, CreateOrder
<1>4. ASSUME CronStep PROVE order' = order
    BY <1>4 DEF CronStep, ListExpired, FailRow, SuspendUser, ListGraceExpired, MarkUnpaid, DeactivateUser
<1>5. ASSUME \/ \E value \in BOOLEAN : SetCancel(value)
             \/ Tick \/ Failure \/ Crash \/ UNCHANGED vars
      PROVE  order' = order
    BY <1>5 DEF SetCancel, Tick, Failure, Crash, vars
<1> QED BY <1>1, <1>2, <1>3, <1>4, <1>5 DEF Next

\* What each of them writes.
LEMMA ClaimWrites ==
    ASSUME OrderInv, NEW h \in Handlers, Claim(h)
    PROVE  /\ handler[h].order \in Orders /\ handler[h].status \in IpnStatuses
           /\ [order |-> handler[h].order, status |-> handler[h].status] \in ipns
           /\ \A o \in Orders \ {handler[h].order} : order'[o] = order[o]
           /\ order'[handler[h].order].renewal = order[handler[h].order].renewal
           /\ Claimable(handler[h].order) =>
                  order'[handler[h].order].status = handler[h].status
           /\ ~Claimable(handler[h].order) => order' = order
           /\ \A o \in overtaken \ overtaken' : o = handler[h].order /\ handler[h].status = "expired"
           /\ Claimable(handler[h].order) /\ handler[h].status = "pending"
                  /\ order[handler[h].order].status = "expired" => handler[h].order \in overtaken'
<1> DEFINE o == handler[h].order
           s == handler[h].status
<1>1. [order |-> o, status |-> s] \in ipns /\ ipns \subseteq Ipns
    BY DEF Claim, OrderInv, OrderTypes, HandledWasSent
<1>2. o \in Orders /\ s \in IpnStatuses /\ s \in OrderStatuses /\ order \in [Orders -> OrderRow]
    BY <1>1 DEF Ipns, IpnStatuses, OrderStatuses, OrderInv, OrderTypes
<1>3. CASE Claimable(o)
  <2>1. order' = [order EXCEPT ![o].status = s]
      BY <1>3 DEF Claim
  <2> HIDE DEF o, s
  <2>2. /\ order'[o].status = s /\ order'[o].renewal = order[o].renewal
        /\ \A p \in Orders \ {o} : order'[p] = order[p]
      BY <1>2, <2>1, OrderAt
  <2>3. /\ s = "expired" => overtaken' = overtaken \ {o}
        /\ s # "expired" => overtaken \subseteq overtaken'
        /\ s = "pending" /\ order[o].status = "expired" => o \in overtaken'
      BY <1>3 DEF Claim, o, s
  <2> QED BY <1>1, <1>2, <1>3, <2>2, <2>3 DEF o, s
<1>4. CASE ~Claimable(o)
  <2>1. order' = order /\ overtaken' = overtaken
      BY <1>4 DEF Claim
  <2> QED BY <1>1, <1>2, <1>4, <2>1
<1> QED BY <1>3, <1>4

LEMMA CheckoutWrites ==
    ASSUME OrderInv, NEW c \in Checkouts
    PROVE  /\ StoreUrl(c) => /\ Working(c) /\ checkout[c].order \in Orders
                             /\ order[checkout[c].order].status # "paid"
                             /\ order'[checkout[c].order].status = "new"
                             /\ order'[checkout[c].order].renewal = order[checkout[c].order].renewal
                             /\ \A o \in Orders \ {checkout[c].order} : order'[o] = order[o]
           /\ CreateRecord(c) => \E o \in Orders :
                 /\ order[o].status = "none" /\ order'[o].status = "new"
                 /\ order'[o].renewal = (c = "renewal")
                 /\ checkout'[c].pc = "call" /\ checkout'[c].order = o
                 /\ \A d \in Checkouts \ {c} : checkout'[d] = checkout[d]
                 /\ \A p \in Orders \ {o} : order'[p] = order[p]
<1>0. order \in [Orders -> OrderRow] /\ CheckoutShape
    BY DEF OrderInv, OrderTypes
<1>1. ASSUME StoreUrl(c)
      PROVE  /\ Working(c) /\ checkout[c].order \in Orders
             /\ order[checkout[c].order].status # "paid"
             /\ order'[checkout[c].order].status = "new"
             /\ order'[checkout[c].order].renewal = order[checkout[c].order].renewal
             /\ \A o \in Orders \ {checkout[c].order} : order'[o] = order[o]
  <2> DEFINE p == checkout[c].order
  <2>1. Working(c) /\ order' = [order EXCEPT ![p].status = "new"]
      BY <1>1 DEF StoreUrl, StoredStatus, Working
  <2>2. p \in Orders /\ order[p].status # "paid"
      BY <2>1 DEF OrderInv, CheckoutOwnsOrder, PaidWasOffered
  <2>3. "new" \in OrderStatuses
      BY DEF OrderStatuses
  <2> HIDE DEF p
  <2>4. /\ order'[p].status = "new" /\ order'[p].renewal = order[p].renewal
        /\ \A o \in Orders \ {p} : order'[o] = order[o]
      BY <1>0, <2>1, <2>2, <2>3, OrderAt
  <2> QED BY <2>1, <2>2, <2>4 DEF p
<1>2. ASSUME CreateRecord(c)
      PROVE  \E o \in Orders :
                 /\ order[o].status = "none" /\ order'[o].status = "new"
                 /\ order'[o].renewal = (c = "renewal")
                 /\ checkout'[c].pc = "call" /\ checkout'[c].order = o
                 /\ \A d \in Checkouts \ {c} : checkout'[d] = checkout[d]
                 /\ \A p \in Orders \ {o} : order'[p] = order[p]
  <2>1. PICK o \in Orders :
          /\ order[o].status = "none"
          /\ order' = [order EXCEPT ![o] = [status |-> "new", renewal |-> c = "renewal", created |-> now]]
          /\ checkout' = [checkout EXCEPT ![c] = [@ EXCEPT !.pc = "call", !.order = o]]
      BY <1>2 DEF CreateRecord
  <2> DEFINE row == [status |-> "new", renewal |-> c = "renewal", created |-> now]
             q == [checkout[c] EXCEPT !.pc = "call", !.order = o]
  <2>2. row.status = "new" /\ row.renewal = (c = "renewal")
      OBVIOUS
  <2>3. order' = [order EXCEPT ![o] = row] /\ checkout' = [checkout EXCEPT ![c] = q]
      BY <2>1
  <2>4. q.pc = "call" /\ q.order = o
    <3>1. IsCheckout(checkout[c])
        BY <1>0 DEF CheckoutShape, IsCheckout
    <3>2. q = [pc |-> "call", order |-> o, todo |-> checkout[c].todo]
        BY <3>1, CheckoutRecords
    <3> QED BY <3>2
  <2> HIDE DEF row, q
  <2>5. order'[o] = row /\ \A p \in Orders \ {o} : order'[p] = order[p]
      BY <1>0, <2>3
  <2>6. checkout'[c] = q /\ \A d \in Checkouts \ {c} : checkout'[d] = checkout[d]
      BY <1>0, <2>3 DEF CheckoutShape
  <2> QED BY <2>1, <2>2, <2>4, <2>5, <2>6
<1> QED BY <1>1, <1>2

\* No callback and no checkout takes a paid order back: the claim does not
\* match it, and createCryptoCheckout's update comes before the link.
THEOREM PaidOrderStaysPaid == Spec => PaidStaysPaid
<1>1. ASSUME BillingInv, [Next]_vars, NEW o \in Orders, order[o].status = "paid"
      PROVE  order'[o].status = "paid"
  <2>0. OrderInv
      BY <1>1 DEF BillingInv
  <2>1. ASSUME NEW h \in Handlers, Claim(h) PROVE order'[o].status = "paid"
    <3>1. Claimable(handler[h].order) => handler[h].order # o
        BY <1>1 DEF Claimable
    <3> QED BY <1>1, <2>0, <2>1, <3>1, ClaimWrites
  <2>2. ASSUME NEW c \in Checkouts, CreateRecord(c) PROVE order'[o].status = "paid"
    <3>1. PICK p \in Orders : /\ order[p].status = "none"
                              /\ \A d \in Orders \ {p} : order'[d] = order[d]
        BY <2>0, <2>2, CheckoutWrites
    <3> QED BY <1>1, <3>1
  <2>3. ASSUME NEW c \in Checkouts, StoreUrl(c) PROVE order'[o].status = "paid"
    <3>1. /\ order[checkout[c].order].status # "paid"
          /\ \A d \in Orders \ {checkout[c].order} : order'[d] = order[d]
        BY <2>0, <2>3, CheckoutWrites
    <3> QED BY <1>1, <3>1
  <2> QED BY <1>1, <2>1, <2>2, <2>3, OrderWriters
<1>2. BillingInv /\ [Next]_vars =>
        [\A o \in Orders : order[o].status = "paid" => order'[o].status = "paid"]_vars
    BY <1>1
<1> QED BY <1>2, BillingInvariant, PTL DEF Spec, PaidStaysPaid

-----------------------------------------------------------------------------
(* What holds when no call fails: payments are honoured *)

\* No call fails and the process does not crash.
Reliable == MaxFailures = 0 /\ MaxCrashes = 0
Untroubled == troubles = [failures |-> 0, crashes |-> 0]

At(h, o, pcs) == handler[h].order = o /\ handler[h].pc \in pcs

\* CoinGate has sent what it was paid, and what it has an answer to is stored.
PaidSent == \A o \in Orders : gate[o] = "paid" => [order |-> o, status |-> "paid"] \in ipns
AnsweredPaid ==
    \A o \in Orders : [order |-> o, status |-> "paid"] \in answered => order[o].status = "paid"

\* A paid callback past the claim is of a paid order, and every paid order is
\* a period and a commission, or a handler is on the way to them.
ClaimedIsPaid ==
    \A h \in Handlers :
        handler[h].pc \in {"user", "commission", "reply"} /\ handler[h].status = "paid" =>
            order[handler[h].order].status = "paid"
Worked(o) ==
    \/ \E h \in Handlers : At(h, o, {"base", "find", "write"})
    \/ /\ activated[o] > 0
       /\ o \in rewarded \/ \E h \in Handlers : At(h, o, {"user", "commission"})
PaidIsWorked == \A o \in Orders : order[o].status = "paid" => Worked(o)

GateType == gate \in [Orders -> {"none", "open", "paid", "expired"}]
HonourInv == GateType /\ PaidSent /\ AnsweredPaid /\ ClaimedIsPaid /\ PaidIsWorked

LEMMA NoTrouble ==
    ASSUME Reliable, Untroubled, [Next]_vars
    PROVE  Untroubled' /\ ~Failure /\ ~Crash
<1>1. ~Failure /\ ~Crash
    BY DEF Reliable, Untroubled, Failure, Crash
<1>2. troubles' = troubles
  <2>1. ASSUME NEW h \in Handlers, HandlerStep(h) PROVE troubles' = troubles
      BY <2>1 DEF HandlerStep, Deliver, Claim, ReadBase, FindExisting, WriteSubscription, WriteUser,
         Reward, Reply
  <2>2. ASSUME NEW o \in Orders, Pay(o) \/ AwaitPayment(o) \/ Expire(o) PROVE troubles' = troubles
      BY <2>2 DEF Pay, AwaitPayment, Expire
  <2>3. CASE CheckoutStep
      BY <2>3 DEF CheckoutStep, BeginCheckout, BeginRenewals, CheckPending, SendEmail, CreateOrder,
         CreateRecord, StoreUrl
  <2>4. CASE CronStep
      BY <2>4 DEF CronStep, ListExpired, FailRow, SuspendUser, ListGraceExpired, MarkUnpaid,
         DeactivateUser
  <2>5. CASE \/ \E value \in BOOLEAN : SetCancel(value)
             \/ Tick \/ UNCHANGED vars
      BY <2>5 DEF SetCancel, Tick, vars
  <2> QED BY <1>1, <2>1, <2>2, <2>3, <2>4, <2>5 DEF Next
<1> QED BY <1>1, <1>2 DEF Untroubled

\* A handler that goes on with the same work.
LEMMA HonourGoesOn ==
    ASSUME BillingInv, HonourInv, NEW h \in Handlers, OneHandler(h),
           UNCHANGED <<order, gate, ipns, activated, rewarded>>,
           answered' \subseteq answered \cup {[order |-> handler[h].order, status |-> handler[h].status]},
           handler[h].pc = "reply" \/ answered' = answered,
           handler'[h].pc \in {"user", "commission", "reply"} /\ handler'[h].status = "paid" =>
               order[handler'[h].order].status = "paid",
           handler[h].pc \in {"base", "find", "write"} =>
               handler'[h].pc \in {"base", "find", "write"} /\ handler'[h].order = handler[h].order,
           handler[h].pc \in {"user", "commission"} =>
               handler'[h].pc \in {"user", "commission"} /\ handler'[h].order = handler[h].order
    PROVE  HonourInv'
<1> USE DEF HonourInv
<1>1. \A g \in Handlers \ {h} : handler'[g] = handler[g]
    BY DEF OneHandler
<1>2. GateType' /\ PaidSent'
    BY DEF GateType, PaidSent
<1>3. AnsweredPaid'
    BY DEF AnsweredPaid, ClaimedIsPaid
<1>4. ClaimedIsPaid'
    BY <1>1 DEF ClaimedIsPaid
<1>5. ASSUME NEW o \in Orders, NEW g \in Handlers
      PROVE  /\ At(g, o, {"base", "find", "write"}) => At(g, o, {"base", "find", "write"})'
             /\ At(g, o, {"user", "commission"}) => At(g, o, {"user", "commission"})'
    BY <1>1 DEF At
<1>6. PaidIsWorked'
    BY <1>5 DEF PaidIsWorked, Worked
<1> QED BY <1>2, <1>3, <1>4, <1>6

LEMMA HonourHandler ==
    ASSUME BillingInv, HonourInv, NEW h \in Handlers, HandlerStep(h)
    PROVE  HonourInv'
<1>0. Calendar /\ OrderInv /\ OrderTypes
    BY DEF BillingInv, OrderInv
<1> DEFINE Rest == UNCHANGED <<order, gate, ipns, answered, activated, rewarded>>
<1> USE DEF world, coingate, history
<1>1. CASE Deliver(h)
  <2>1. OneHandler(h) /\ handler[h].pc = "idle" /\ handler'[h].pc = "claim"
      BY <1>0, <1>1, HandlerEffect, Zenon
  <2>2. Rest
      BY <1>1 DEF Deliver
  <2> QED BY <2>1, <2>2, HonourGoesOn
<1>2. CASE Claim(h)
  <2>0. PICK o \in Orders, s \in IpnStatuses : o = handler[h].order /\ s = handler[h].status
      BY <1>0, <1>2, ClaimWrites
  <2>1. OneHandler(h) /\ Goes(h, "claim",
            IF Claimable(handler[h].order) /\ handler[h].status = "paid" THEN "base" ELSE "reply")
      BY <1>0, <1>2, HandlerEffect, Zenon
  <2>2. UNCHANGED <<gate, ipns, answered, activated, rewarded>>
      BY <1>2 DEF Claim
  <2>3. CASE ~Claimable(o)
    <3>1. order' = order
        BY <1>0, <1>2, <2>0, <2>3, ClaimWrites
    <3>2. handler[h].pc = "claim" /\ handler'[h].pc = "reply" /\ handler'[h].order = o /\ order[o].status = "paid"
        BY <2>0, <2>1, <2>3 DEF Goes, Same, Claimable
    <3> QED BY <2>1, <2>2, <3>1, <3>2, HonourGoesOn
  <2>4. CASE Claimable(o)
    <3>1. /\ order[o].status # "paid" /\ order'[o].status = s
          /\ \A p \in Orders \ {o} : order'[p] = order[p]
        BY <1>0, <1>2, <2>0, <2>4, ClaimWrites DEF Claimable
    <3>2. /\ handler[h].pc = "claim" /\ handler'[h].order = o /\ handler'[h].status = s
          /\ handler'[h].pc = IF s = "paid" THEN "base" ELSE "reply"
          /\ \A g \in Handlers \ {h} : handler'[g] = handler[g]
        BY <2>0, <2>1, <2>4 DEF Goes, Same, OneHandler
    <3> USE DEF HonourInv
    <3>3. GateType' /\ PaidSent'
        BY <2>2 DEF GateType, PaidSent
    <3>4. AnsweredPaid'
        BY <2>2, <3>1 DEF AnsweredPaid
    <3>5. ClaimedIsPaid'
      <4>1. ASSUME NEW g \in Handlers \ {h},
                   handler[g].pc \in {"user", "commission", "reply"}, handler[g].status = "paid"
            PROVE  order'[handler[g].order].status = "paid"
        <5>1. order[handler[g].order].status = "paid"
            BY <4>1 DEF ClaimedIsPaid
        <5>2. handler[g].order \in Orders
            BY <1>0, <4>1 DEF OrderInv, OrderTypes, HandledWasSent, Ipns
        <5> QED BY <3>1, <5>1, <5>2
      <4> QED BY <3>2, <4>1 DEF ClaimedIsPaid
    <3>6. PaidIsWorked'
      <4>1. ASSUME NEW p \in Orders, NEW g \in Handlers
            PROVE  /\ At(g, p, {"base", "find", "write"}) => At(g, p, {"base", "find", "write"})'
                   /\ At(g, p, {"user", "commission"}) => At(g, p, {"user", "commission"})'
          BY <3>2 DEF At
      <4>2. s = "paid" => At(h, o, {"base", "find", "write"})'
          BY <3>2 DEF At
      <4>3. \A p \in Orders : Worked(p) => Worked(p)'
          BY <2>2, <4>1 DEF Worked
      <4>4. s = "paid" => Worked(o)'
          BY <4>2 DEF Worked
      <4> QED BY <3>1, <4>3, <4>4 DEF PaidIsWorked
    <3> QED BY <3>3, <3>4, <3>5, <3>6
  <2> QED BY <2>3, <2>4
<1>3. CASE ReadBase(h)
  <2>1. OneHandler(h) /\ Goes(h, "base", "find")
      BY <1>0, <1>3, HandlerEffect, Zenon
  <2>2. Rest
      BY <1>3 DEF ReadBase
  <2>3. handler[h].pc = "base" /\ handler'[h].pc = "find" /\ handler'[h].order = handler[h].order
      BY <2>1 DEF Goes, Same
  <2> QED BY <2>1, <2>2, <2>3, HonourGoesOn
<1>4. CASE FindExisting(h)
  <2>1. OneHandler(h) /\ Goes(h, "find", "write")
      BY <1>0, <1>4, HandlerEffect, Zenon
  <2>2. Rest
      BY <1>4 DEF FindExisting
  <2>3. handler[h].pc = "find" /\ handler'[h].pc = "write" /\ handler'[h].order = handler[h].order
      BY <2>1 DEF Goes, Same
  <2> QED BY <2>1, <2>2, <2>3, HonourGoesOn
<1>5. CASE WriteSubscription(h)
  <2>1. OneHandler(h) /\ Goes(h, "write", "user")
      BY <1>0, <1>5, HandlerEffect, Zenon
  <2>0. PICK o \in Orders : o = handler[h].order
      BY <1>0, <2>1 DEF Goes, OrderInv, OrderTypes, HandledWasSent, Ipns
  <2>2. /\ UNCHANGED <<order, gate, ipns, answered, rewarded>>
        /\ activated' = [activated EXCEPT ![o] = @ + 1]
      BY <1>5, <2>0 DEF WriteSubscription
  <2>3. order[o].status = "paid" /\ activated \in [Orders -> Nat]
      BY <1>0, <2>0, <2>1 DEF Goes, OrderInv, OrderTypes, OneWinner, Winner
  <2>4. \A p \in Orders : activated'[p] > 0 <=> activated[p] > 0 \/ p = o
      BY <2>2, <2>3
  <2>5. /\ handler[h].pc = "write" /\ handler'[h].pc = "user" /\ handler'[h].order = o
        /\ \A g \in Handlers \ {h} : handler'[g] = handler[g]
      BY <2>0, <2>1 DEF Goes, Same, OneHandler
  <2> USE DEF HonourInv
  <2>6. GateType' /\ PaidSent' /\ AnsweredPaid'
      BY <2>2 DEF GateType, PaidSent, AnsweredPaid
  <2>7. ClaimedIsPaid'
      BY <2>2, <2>3, <2>5 DEF ClaimedIsPaid
  <2>8. PaidIsWorked'
    <3>1. ASSUME NEW p \in Orders \ {o}, NEW g \in Handlers
          PROVE  /\ At(g, p, {"base", "find", "write"}) => At(g, p, {"base", "find", "write"})'
                 /\ At(g, p, {"user", "commission"}) => At(g, p, {"user", "commission"})'
        BY <2>0, <2>5 DEF At
    <3>2. \A p \in Orders \ {o} : Worked(p) => Worked(p)'
        BY <2>2, <2>4, <3>1 DEF Worked
    <3>3. At(h, o, {"user", "commission"})'
        BY <2>5 DEF At
    <3>4. Worked(o)'
        BY <2>3, <2>4, <3>3 DEF Worked
    <3> QED BY <2>2, <3>2, <3>4 DEF PaidIsWorked
  <2> QED BY <2>6, <2>7, <2>8
<1>6. CASE WriteUser(h)
  <2>1. OneHandler(h) /\ Goes(h, "user", "commission")
      BY <1>0, <1>6, HandlerEffect, Zenon
  <2>2. Rest
      BY <1>6 DEF WriteUser
  <2>3. handler[h].status = "paid" => order[handler[h].order].status = "paid"
      BY <2>1 DEF Goes, HonourInv, ClaimedIsPaid
  <2>4. /\ handler[h].pc = "user" /\ handler'[h].pc = "commission"
        /\ Same(handler'[h], handler[h])
      BY <2>1 DEF Goes
  <2> QED BY <2>1, <2>2, <2>3, <2>4, HonourGoesOn DEF Same
<1>7. CASE Reward(h)
  <2>1. OneHandler(h) /\ Goes(h, "commission", "reply")
      BY <1>0, <1>7, HandlerEffect, Zenon
  <2>0. PICK o \in Orders : o = handler[h].order
      BY <1>0, <2>1 DEF Goes, OrderInv, OrderTypes, HandledWasSent, Ipns
  <2>2. /\ UNCHANGED <<order, gate, ipns, answered, activated>>
        /\ rewarded' = rewarded \cup {o}
      BY <1>7, <2>0 DEF Reward
  <2>3. /\ handler[h].pc = "commission" /\ handler'[h].pc = "reply"
        /\ handler'[h].order = o /\ handler'[h].status = handler[h].status
        /\ \A g \in Handlers \ {h} : handler'[g] = handler[g]
      BY <2>0, <2>1 DEF Goes, Same, OneHandler
  <2> USE DEF HonourInv
  <2>4. GateType' /\ PaidSent' /\ AnsweredPaid'
      BY <2>2 DEF GateType, PaidSent, AnsweredPaid
  <2>5. ClaimedIsPaid'
      BY <2>0, <2>2, <2>3 DEF ClaimedIsPaid
  <2>6. PaidIsWorked'
    <3>1. ASSUME NEW p \in Orders, NEW g \in Handlers
          PROVE  /\ At(g, p, {"base", "find", "write"}) => At(g, p, {"base", "find", "write"})'
                 /\ At(g, p, {"user", "commission"}) => p = o \/ At(g, p, {"user", "commission"})'
        BY <2>0, <2>3 DEF At
    <3>2. \A p \in Orders : Worked(p) => Worked(p)'
        BY <2>2, <3>1 DEF Worked
    <3> QED BY <2>2, <3>2 DEF PaidIsWorked
  <2> QED BY <2>4, <2>5, <2>6
<1>8. CASE Reply(h)
  <2>1. OneHandler(h) /\ handler[h].pc = "reply" /\ handler'[h].pc = "idle"
    <3>1. OneHandler(h) /\ handler[h].pc = "reply" /\ handler'[h] = IdleHandler
        BY <1>0, <1>8, HandlerEffect, Zenon
    <3> QED BY <3>1 DEF IdleHandler
  <2>2. /\ UNCHANGED <<order, gate, ipns, activated, rewarded>>
        /\ answered' = answered \cup {[order |-> handler[h].order, status |-> handler[h].status]}
      BY <1>8 DEF Reply
  <2> QED BY <2>1, <2>2, HonourGoesOn
<1> QED BY <1>1, <1>2, <1>3, <1>4, <1>5, <1>6, <1>7, <1>8 DEF HandlerStep

\* The steps that leave the handlers alone.
LEMMA HonourElsewhere ==
    ASSUME OrderInv, HonourInv, UNCHANGED <<answered, handler, activated, rewarded>>,
           ipns \subseteq ipns', GateType',
           \A o \in Orders : gate'[o] = "paid" =>
               gate[o] = "paid" \/ [order |-> o, status |-> "paid"] \in ipns',
           \A o \in Orders : order[o].status = "paid" <=> order'[o].status = "paid"
    PROVE  HonourInv'
<1> USE DEF HonourInv
<1>1. PaidSent' /\ AnsweredPaid'
    BY DEF PaidSent, AnsweredPaid
<1>2. ClaimedIsPaid'
  <2>1. ASSUME NEW h \in Handlers, handler[h].pc \in {"user", "commission", "reply"}
        PROVE  handler[h].order \in Orders
      BY <2>1 DEF OrderInv, OrderTypes, HandledWasSent, Ipns
  <2> QED BY <2>1 DEF ClaimedIsPaid
<1>3. PaidIsWorked'
    BY DEF PaidIsWorked, Worked, At
<1> QED BY <1>1, <1>2, <1>3

LEMMA CheckoutPaysNothing ==
    ASSUME OrderInv, CheckoutStep
    PROVE  \A o \in Orders : order[o].status = "paid" <=> order'[o].status = "paid"
<1>1. ASSUME NEW c \in Checkouts, CreateRecord(c)
      PROVE  \A o \in Orders : order[o].status = "paid" <=> order'[o].status = "paid"
  <2>1. PICK p \in Orders : /\ order[p].status = "none" /\ order'[p].status = "new"
                            /\ \A o \in Orders \ {p} : order'[o] = order[o]
      BY <1>1, CheckoutWrites
  <2> QED BY <2>1
<1>2. ASSUME NEW c \in Checkouts, StoreUrl(c)
      PROVE  \A o \in Orders : order[o].status = "paid" <=> order'[o].status = "paid"
  <2>1. PICK p \in Orders : /\ order[p].status # "paid" /\ order'[p].status = "new"
                            /\ \A o \in Orders \ {p} : order'[o] = order[o]
      BY <1>2, CheckoutWrites
  <2> QED BY <2>1
<1>3. ASSUME ~ \E c \in Checkouts : CreateRecord(c) \/ StoreUrl(c) PROVE order' = order
    BY <1>3 DEF CheckoutStep, BeginCheckout, BeginRenewals, CheckPending, SendEmail, CreateOrder
<1> QED BY <1>1, <1>2, <1>3

\* What CoinGate knows of an order changes when it is created, paid or expires.
LEMMA CheckoutLeaves ==
    ASSUME CheckoutStep
    PROVE  /\ UNCHANGED <<ipns, answered, handler, activated, rewarded, paidUntil, overtaken, troubles,
                          subs, user, cron, now>>
           /\ \/ gate' = gate
              \/ \E c \in Checkouts : CreateOrder(c)
BY DEF CheckoutStep, BeginCheckout, BeginRenewals, CheckPending, SendEmail, CreateOrder,
       CreateRecord, StoreUrl, world, coingate, history

LEMMA HonourNext ==
    ASSUME BillingInv, HonourInv, [Next]_vars, ~Failure, ~Crash
    PROVE  HonourInv'
<1>0. OrderInv /\ GateType /\ HonourInv
    BY DEF BillingInv, HonourInv
<1>1. ASSUME NEW h \in Handlers, HandlerStep(h) PROVE HonourInv'
    BY <1>1, HonourHandler
<1>2. ASSUME NEW o \in Orders, Pay(o) PROVE HonourInv'
  <2>1. /\ UNCHANGED <<order, answered, handler, activated, rewarded>>
        /\ gate' = [gate EXCEPT ![o] = "paid"]
        /\ ipns' = ipns \cup {[order |-> o, status |-> s] : s \in {"pending", "paid"}}
      BY <1>2 DEF Pay, Send, history
  <2>2. GateType' /\ \A p \in Orders : gate'[p] = "paid" => gate[p] = "paid" \/ p = o
      BY <1>0, <2>1 DEF GateType
  <2>3. ipns \subseteq ipns' /\ [order |-> o, status |-> "paid"] \in ipns'
      BY <2>1
  <2> QED BY <1>0, <2>1, <2>2, <2>3, HonourElsewhere
<1>3. ASSUME NEW o \in Orders, Expire(o) PROVE HonourInv'
  <2>1. /\ UNCHANGED <<order, answered, handler, activated, rewarded>>
        /\ gate' = [gate EXCEPT ![o] = "expired"] /\ ipns \subseteq ipns'
      BY <1>3 DEF Expire, Send, history
  <2>2. GateType' /\ \A p \in Orders : gate'[p] = "paid" => gate[p] = "paid"
      BY <1>0, <2>1 DEF GateType
  <2> QED BY <1>0, <2>1, <2>2, HonourElsewhere
<1>6. ASSUME NEW o \in Orders, AwaitPayment(o) PROVE HonourInv'
  <2>1. /\ UNCHANGED <<order, gate, answered, handler, activated, rewarded>> /\ ipns \subseteq ipns'
      BY <1>6 DEF AwaitPayment, Send, history
  <2> QED BY <1>0, <2>1, HonourElsewhere DEF GateType
<1>4. CASE CheckoutStep
  <2>1. UNCHANGED <<ipns, answered, handler, activated, rewarded>>
      BY <1>4, CheckoutLeaves
  <2>2. GateType' /\ \A p \in Orders : gate'[p] = "paid" => gate[p] = "paid"
    <3>1. ASSUME NEW c \in Checkouts, CreateOrder(c)
          PROVE  gate' = [gate EXCEPT ![checkout[c].order] = "open"]
        BY <3>1 DEF CreateOrder
    <3> QED BY <1>0, <1>4, <3>1, CheckoutLeaves DEF GateType
  <2> QED BY <1>0, <1>4, <2>1, <2>2, CheckoutPaysNothing, HonourElsewhere
<1>5. CASE \/ \E value \in BOOLEAN : SetCancel(value)
           \/ CronStep \/ Tick \/ UNCHANGED vars
  <2>1. UNCHANGED <<order, gate, ipns, answered, handler, activated, rewarded>>
      BY <1>5 DEF SetCancel, CronStep, ListExpired, FailRow, SuspendUser, ListGraceExpired, MarkUnpaid,
         DeactivateUser, Tick, vars, coingate, history
  <2> QED BY <1>0, <2>1, HonourElsewhere DEF GateType
<1> QED BY <1>1, <1>2, <1>3, <1>4, <1>5, <1>6 DEF Next

LEMMA HonourInit == Init => Untroubled /\ HonourInv
<1> SUFFICES ASSUME Init PROVE Untroubled /\ HonourInv
    OBVIOUS
<1>1. /\ order = [o \in Orders |-> NoOrder] /\ gate = [o \in Orders |-> "none"] /\ answered = {}
      /\ handler = [h \in Handlers |-> IdleHandler] /\ Untroubled
    BY DEF Init, Untroubled
<1>2. GateType /\ PaidSent /\ AnsweredPaid
    BY <1>1 DEF GateType, PaidSent, AnsweredPaid
<1>3. ClaimedIsPaid
    BY <1>1 DEF ClaimedIsPaid, IdleHandler
<1>4. PaidIsWorked
    BY <1>1 DEF PaidIsWorked, NoOrder
<1> QED BY <1>1, <1>2, <1>3, <1>4 DEF HonourInv

LEMMA HonourInvariant == ASSUME Reliable PROVE Spec => [](Untroubled /\ BillingInv /\ HonourInv)
<1>1. Init => Untroubled /\ BillingInv /\ HonourInv
    BY InitHolds, HonourInit
<1>2. Untroubled /\ BillingInv /\ HonourInv /\ [Next]_vars => (Untroubled /\ BillingInv /\ HonourInv)'
    BY NextHolds, NoTrouble, HonourNext
<1> QED BY <1>1, <1>2, PTL DEF Spec

\* When no call fails and the process does not crash, a payment CoinGate has
\* taken is a period and a commission once its callbacks are answered, for any
\* number of them handled at once and in any order: the handler that answers
\* the paid callback has claimed the order or found it claimed, and whoever
\* claimed it goes on (handleCoinGateIpn).
THEOREM PaymentsAreHonoured == ASSUME Reliable PROVE Spec => []PaymentIsHonoured
<1>1. HonourInv => PaymentIsHonoured
  <2> SUFFICES ASSUME HonourInv, Quiet, NEW o \in Orders, gate[o] = "paid"
               PROVE  activated[o] > 0 /\ o \in rewarded
      BY DEF PaymentIsHonoured
  <2>1. order[o].status = "paid"
      BY DEF HonourInv, PaidSent, AnsweredPaid, Quiet
  <2>2. \A h \in Handlers : handler[h].pc = "idle"
      BY DEF Quiet, Idle
  <2>3. Worked(o)
      BY <2>1 DEF HonourInv, PaidIsWorked
  <2> QED BY <2>2, <2>3 DEF Worked, At
<1> QED BY <1>1, HonourInvariant, PTL

-----------------------------------------------------------------------------
(* The renewal cron passes over a subscription only for a link that is out *)

\* An order is at CoinGate once it is stored, and CoinGate has sent what
\* became of it and nothing else, save that it awaits the payment.
GateOfSent ==
    \A o \in Orders :
        /\ [order |-> o, status |-> "expired"] \in ipns => gate[o] = "expired"
        /\ [order |-> o, status |-> "pending"] \in ipns => gate[o] # "none" /\ o \in offered
        /\ [order |-> o, status |-> "paid"] \in ipns => gate[o] = "paid"
        /\ order[o].status = "paid" => gate[o] = "paid"
        /\ order[o].status = "none" => gate[o] = "none"
GateOfWorking == \A c \in Checkouts : Working(c) => gate[checkout[c].order] \in {"none", "open"}

\* The claim of an expired order's callback is what is stored of it, unless
\* an earlier callback has come after it.
PaidPastClaim ==
    \A h \in Handlers :
        handler[h].pc \in {"base", "find", "write", "user", "commission"} => handler[h].status = "paid"
EndIsStored(o) == order[o].status = "expired" \/ o \in overtaken
ExpiredIsStored ==
    /\ answered \subseteq ipns
    /\ \A o \in Orders :
        [order |-> o, status |-> "expired"] \in answered => EndIsStored(o)
    /\ \A h \in Handlers : handler[h].pc = "reply" /\ handler[h].status = "expired" =>
        EndIsStored(handler[h].order)

\* A renewal order is with the user, or the cron is about to send it.
RenewalIsOut ==
    \A o \in Orders : order[o].renewal /\ order[o].status # "none" =>
        o \in offered \/ (Working("renewal") /\ checkout["renewal"].order = o)

RenewInv ==
    GateType /\ GateOfSent /\ GateOfWorking /\ PaidPastClaim /\ ExpiredIsStored /\ RenewalIsOut

\* What a step of a checkout does to its record.
LEMMA CheckoutAt ==
    ASSUME CheckoutShape, NEW c \in Checkouts, NEW r, checkout' = [checkout EXCEPT ![c] = r]
    PROVE  checkout'[c] = r /\ \A d \in Checkouts \ {c} : checkout'[d] = checkout[d]
BY DEF CheckoutShape

LEMMA CheckoutGoes ==
    ASSUME CheckoutShape, NEW c \in Checkouts, NEW pc, GoCheckout(c, pc)
    PROVE  /\ checkout'[c].pc = pc /\ checkout'[c].order = checkout[c].order
           /\ \A d \in Checkouts \ {c} : checkout'[d] = checkout[d]
<1> DEFINE rec == checkout[c]
           r == [rec EXCEPT !.pc = pc]
<1>1. r.pc = pc /\ r.order = rec.order
    BY DEF CheckoutShape
<1>2. checkout' = [checkout EXCEPT ![c] = r]
    BY DEF GoCheckout
<1> HIDE DEF r
<1> QED BY <1>1, <1>2, CheckoutAt

\* A checkout takes an order when it stores it and lets go of it when it is
\* offered.
Keeps(c) ==
    /\ Working(c)' => Working(c) /\ checkout'[c].order = checkout[c].order
    /\ Working(c) => \/ checkout[c].order \in offered'
                     \/ Working(c)' /\ checkout'[c].order = checkout[c].order

LEMMA CheckoutKeeps ==
    ASSUME OrderInv, CheckoutStep, NEW c \in Checkouts, ~CreateRecord(c)
    PROVE  Keeps(c)
<1>0. CheckoutShape /\ {"client", "renewal"} = Checkouts
    BY DEF OrderInv, OrderTypes, Checkouts
<1>f. ASSUME checkout'[c] = checkout[c] PROVE Keeps(c)
    BY <1>f DEF Keeps, Working
<1>r. \A todo : Renew(todo).pc \in {"idle", "check"}
    BY DEF Renew, IdleCheckout
<1>1. CASE BeginCheckout
  <2>1. /\ checkout["client"].pc = "idle" /\ checkout'["client"].pc = "create"
        /\ \A d \in Checkouts \ {"client"} : checkout'[d] = checkout[d]
      BY <1>0, <1>1, CheckoutGoes DEF BeginCheckout
  <2> QED BY <2>1 DEF Keeps, Working
<1>2. CASE BeginRenewals
  <2>0. PICK rows : checkout' = [checkout EXCEPT !["renewal"] = Renew(rows)]
      BY <1>2 DEF BeginRenewals
  <2>1. /\ checkout["renewal"].pc = "idle" /\ checkout'["renewal"].pc \in {"idle", "check"}
        /\ \A d \in Checkouts \ {"renewal"} : checkout'[d] = checkout[d]
      BY <1>0, <1>2, <1>r, <2>0, CheckoutAt DEF BeginRenewals
  <2> QED BY <2>1 DEF Keeps, Working
<1>3. CASE CheckPending
  <2> DEFINE rec == checkout["renewal"]
             later == [rec EXCEPT !.pc = "create"]
             r == IF \E o \in Orders : PendingRenewal(o, Head(rec.todo).start)
                  THEN Renew(Tail(rec.todo)) ELSE later
  <2>1. checkout' = [checkout EXCEPT !["renewal"] = r] /\ rec.pc = "check"
      BY <1>3 DEF CheckPending
  <2>2. later.pc = "create"
      BY <1>0 DEF CheckoutShape
  <2> HIDE DEF later
  <2>3. r.pc \in {"idle", "check", "create"}
      BY <1>r, <2>2
  <2> HIDE DEF r
  <2>4. checkout'["renewal"] = r /\ \A d \in Checkouts \ {"renewal"} : checkout'[d] = checkout[d]
      BY <1>0, <2>1, CheckoutAt
  <2> QED BY <2>1, <2>3, <2>4 DEF Keeps, Working
<1>4. CASE SendEmail
  <2> DEFINE r == Renew(Tail(checkout["renewal"].todo))
  <2>1. checkout["renewal"].order \in offered' /\ checkout' = [checkout EXCEPT !["renewal"] = r]
      BY <1>4 DEF SendEmail
  <2>2. r.pc \in {"idle", "check"}
      BY <1>r
  <2> HIDE DEF r
  <2>3. checkout'["renewal"] = r /\ \A d \in Checkouts \ {"renewal"} : checkout'[d] = checkout[d]
      BY <1>0, <2>1, CheckoutAt
  <2> QED BY <2>1, <2>2, <2>3 DEF Keeps, Working
<1>5. ASSUME NEW d \in Checkouts, CreateRecord(d) PROVE Keeps(c)
  <2>1. \A b \in Checkouts \ {d} : checkout'[b] = checkout[b]
      BY <1>5, CheckoutWrites
  <2> QED BY <1>5, <2>1, <1>f
<1>6. ASSUME NEW d \in Checkouts, CreateOrder(d) PROVE Keeps(c)
  <2>1. /\ checkout[d].pc = "call" /\ checkout'[d].pc = "update"
        /\ checkout'[d].order = checkout[d].order
        /\ \A b \in Checkouts \ {d} : checkout'[b] = checkout[b]
      BY <1>0, <1>6, CheckoutGoes DEF CreateOrder
  <2> QED BY <2>1 DEF Keeps, Working
<1>7. ASSUME NEW d \in Checkouts, StoreUrl(d) PROVE Keeps(c)
  <2>1. CASE d = "client"
    <3>1. checkout[d].order \in offered' /\ checkout' = [checkout EXCEPT ![d] = IdleCheckout]
        BY <1>7, <2>1 DEF StoreUrl
    <3>2. checkout'[d] = IdleCheckout /\ \A b \in Checkouts \ {d} : checkout'[b] = checkout[b]
        BY <1>0, <3>1, CheckoutAt
    <3> QED BY <3>1, <3>2 DEF Keeps, Working, IdleCheckout
  <2>2. CASE d # "client"
    <3>1. /\ checkout[d].pc = "update" /\ checkout'[d].pc = "email"
          /\ checkout'[d].order = checkout[d].order
          /\ \A b \in Checkouts \ {d} : checkout'[b] = checkout[b]
        BY <1>0, <1>7, <2>2, CheckoutGoes DEF StoreUrl
    <3> QED BY <3>1 DEF Keeps, Working
  <2> QED BY <2>1, <2>2
<1> QED BY <1>1, <1>2, <1>3, <1>4, <1>5, <1>6, <1>7 DEF CheckoutStep

LEMMA RenewHandler ==
    ASSUME BillingInv, RenewInv, NEW h \in Handlers, HandlerStep(h)
    PROVE  RenewInv'
<1>0. Calendar /\ OrderInv /\ OrderTypes /\ RenewInv
    BY DEF BillingInv, OrderInv
<1> USE DEF world, coingate, history
<1>1. UNCHANGED <<gate, ipns, offered, checkout>>
    BY DEF HandlerStep, Deliver, Claim, ReadBase, FindExisting, WriteSubscription, WriteUser, Reward, Reply
<1>2. CASE Claim(h)
  <2>0. PICK o \in Orders, s \in IpnStatuses : o = handler[h].order /\ s = handler[h].status
      BY <1>0, <1>2, ClaimWrites
  <2>1. /\ handler'[h].order = o /\ handler'[h].status = s
        /\ handler'[h].pc = IF Claimable(o) /\ s = "paid" THEN "base" ELSE "reply"
        /\ \A g \in Handlers \ {h} : handler'[g] = handler[g]
    <3>1. OneHandler(h) /\ Goes(h, "claim",
              IF Claimable(handler[h].order) /\ handler[h].status = "paid" THEN "base" ELSE "reply")
        BY <1>0, <1>2, HandlerEffect, Zenon
    <3> QED BY <2>0, <3>1 DEF OneHandler, Goes, Same
  <2>2. /\ [order |-> o, status |-> s] \in ipns
        /\ \A p \in Orders \ {o} : order'[p] = order[p]
        /\ order'[o].renewal = order[o].renewal
        /\ Claimable(o) => order'[o].status = s
        /\ ~Claimable(o) => order' = order
        /\ \A p \in overtaken \ overtaken' : p = o /\ s = "expired"
        /\ Claimable(o) /\ s = "pending" /\ order[o].status = "expired" => o \in overtaken'
      BY <1>0, <1>2, <2>0, ClaimWrites
  <2>3. /\ s = "expired" => gate[o] = "expired" /\ Claimable(o)
        /\ s = "paid" => gate[o] = "paid"
        /\ order[o].status # "none"
      BY <1>0, <2>2 DEF RenewInv, GateOfSent, IpnStatuses, Claimable
  <2>4. UNCHANGED answered
      BY <1>2 DEF Claim
  <2>5. order'[o].status # "none"
      BY <2>2, <2>3 DEF IpnStatuses, Claimable
  <2>6. GateType' /\ GateOfWorking' /\ RenewalIsOut'
      BY <1>0, <1>1, <2>2, <2>3, <2>5 DEF RenewInv, GateType, GateOfWorking, RenewalIsOut, Working
  <2>7. GateOfSent'
      BY <1>0, <1>1, <2>2, <2>3, <2>5 DEF RenewInv, GateOfSent
  <2>8. PaidPastClaim'
      BY <1>0, <2>1 DEF RenewInv, PaidPastClaim
  <2>9. ExpiredIsStored'
    <3>1. ASSUME NEW p \in Orders, EndIsStored(p), [order |-> p, status |-> "expired"] \in ipns
          PROVE  order'[p].status = "expired" \/ p \in overtaken'
      <4>1. gate[p] = "expired" /\ order[p].status # "paid"
          BY <1>0, <3>1 DEF RenewInv, GateOfSent
      <4>2. CASE p # o
          BY <2>2, <3>1, <4>2 DEF EndIsStored
      <4>3. CASE p = o /\ s = "expired"
          BY <2>2, <2>3, <4>3
      <4>4. CASE p = o /\ s = "pending"
          BY <2>2, <3>1, <4>1, <4>4 DEF EndIsStored, Claimable
      <4>5. p = o => s \in {"expired", "pending"}
          BY <2>3, <4>1 DEF IpnStatuses
      <4> QED BY <4>2, <4>3, <4>4, <4>5
    <3>2. ASSUME NEW p \in Orders, [order |-> p, status |-> "expired"] \in answered
          PROVE  order'[p].status = "expired" \/ p \in overtaken'
        BY <1>0, <3>1, <3>2 DEF RenewInv, ExpiredIsStored
    <3>3. ASSUME NEW g \in Handlers \ {h}, handler[g].pc = "reply", handler[g].status = "expired"
          PROVE  order'[handler[g].order].status = "expired" \/ handler[g].order \in overtaken'
      <4>1. [order |-> handler[g].order, status |-> "expired"] \in ipns /\ handler[g].order \in Orders
          BY <1>0, <3>3 DEF OrderInv, OrderTypes, HandledWasSent, Ipns
      <4> QED BY <1>0, <3>1, <3>3, <4>1 DEF RenewInv, ExpiredIsStored
    <3>4. s = "expired" => order'[o].status = "expired"
        BY <2>2, <2>3
    <3> QED BY <1>0, <1>1, <2>1, <2>4, <3>2, <3>3, <3>4 DEF RenewInv, ExpiredIsStored, EndIsStored
  <2> QED BY <2>6, <2>7, <2>8, <2>9 DEF RenewInv
<1>3. CASE ~Claim(h)
  <2>1. order' = order /\ overtaken' = overtaken
      BY <1>3 DEF HandlerStep, Deliver, ReadBase, FindExisting, WriteSubscription, WriteUser, Reward, Reply
  <2>2. /\ \A g \in Handlers \ {h} : handler'[g] = handler[g]
        /\ \/ handler'[h].pc \in {"idle", "claim"}
           \/ /\ handler[h].pc \in {"base", "find", "write", "user", "commission"}
              /\ handler'[h].status = handler[h].status
    <3>1. /\ OneHandler(h)
          /\ \/ handler'[h].pc = "claim" \/ handler'[h] = IdleHandler
             \/ Goes(h, "base", "find") \/ Goes(h, "find", "write") \/ Goes(h, "write", "user")
             \/ Goes(h, "user", "commission") \/ Goes(h, "commission", "reply")
        BY <1>0, <1>3, HandlerEffect, Zenon DEF HandlerStep
    <3> QED BY <3>1 DEF OneHandler, Goes, Same, IdleHandler
  <2>3. PaidPastClaim' /\ (handler'[h].pc = "reply" => handler'[h].status = "paid")
      BY <1>0, <2>2 DEF RenewInv, PaidPastClaim
  <2>4. \/ answered' = answered
        \/ /\ handler[h].pc = "reply"
           /\ answered' = answered \cup {[order |-> handler[h].order, status |-> handler[h].status]}
      BY <1>3 DEF HandlerStep, Deliver, ReadBase, FindExisting, WriteSubscription, WriteUser, Reward, Reply
  <2>5. ExpiredIsStored'
    <3>1. answered' \subseteq ipns
        BY <1>0, <2>4 DEF RenewInv, ExpiredIsStored, OrderInv, HandledWasSent
    <3>2. ASSUME NEW o \in Orders, [order |-> o, status |-> "expired"] \in answered'
          PROVE  EndIsStored(o)
        BY <1>0, <2>4, <3>2 DEF RenewInv, ExpiredIsStored
    <3> QED BY <1>0, <1>1, <2>1, <2>2, <2>3, <3>1, <3>2 DEF RenewInv, ExpiredIsStored, EndIsStored
  <2>6. GateType' /\ GateOfSent' /\ GateOfWorking' /\ RenewalIsOut'
      BY <1>0, <1>1, <2>1 DEF RenewInv, GateType, GateOfSent, GateOfWorking, RenewalIsOut, Working
  <2> QED BY <2>3, <2>5, <2>6 DEF RenewInv
<1> QED BY <1>2, <1>3

LEMMA RenewGate ==
    ASSUME OrderInv, RenewInv, NEW o \in Orders, Pay(o) \/ AwaitPayment(o) \/ Expire(o)
    PROVE  RenewInv'
<1>0. /\ UNCHANGED <<order, offered, answered, handler, checkout, overtaken>>
      /\ gate[o] = "open" /\ \A c \in Checkouts : Working(c) => checkout[c].order # o
    BY DEF Pay, AwaitPayment, Expire, OrderInv, CheckoutOwnsOrder, history
<1>1. /\ ipns \subseteq ipns' /\ GateType'
      /\ \A p \in Orders \ {o} :
            /\ gate'[p] = gate[p]
            /\ \A s \in IpnStatuses : [order |-> p, status |-> s] \in ipns' => [order |-> p, status |-> s] \in ipns
      /\ gate'[o] # "none"
      /\ [order |-> o, status |-> "expired"] \in ipns' \ ipns => gate'[o] = "expired"
      /\ [order |-> o, status |-> "pending"] \in ipns' \ ipns => o \in offered
      /\ [order |-> o, status |-> "paid"] \in ipns' \ ipns => gate'[o] = "paid"
  <2>1. CASE Pay(o)
    <3>1. /\ gate' = [gate EXCEPT ![o] = "paid"] /\ o \in offered
          /\ ipns' = ipns \cup {[order |-> o, status |-> s] : s \in {"pending", "paid"}}
        BY <2>1 DEF Pay, Send
    <3>2. GateType' /\ gate'[o] = "paid" /\ \A p \in Orders \ {o} : gate'[p] = gate[p]
        BY <3>1 DEF RenewInv, GateType
    <3> QED BY <3>1, <3>2
  <2>2. CASE Expire(o)
    <3>1. /\ gate' = [gate EXCEPT ![o] = "expired"]
          /\ ipns' = ipns \cup {[order |-> o, status |-> "expired"]}
        BY <2>2 DEF Expire, Send
    <3>2. GateType' /\ gate'[o] = "expired" /\ \A p \in Orders \ {o} : gate'[p] = gate[p]
        BY <3>1 DEF RenewInv, GateType
    <3> QED BY <3>1, <3>2
  <2>3. CASE AwaitPayment(o)
    <3>1. /\ gate' = gate /\ o \in offered
          /\ ipns' = ipns \cup {[order |-> o, status |-> "pending"]}
        BY <2>3 DEF AwaitPayment, Send
    <3> QED BY <1>0, <3>1 DEF RenewInv, GateType
  <2> QED BY <2>1, <2>2, <2>3
<1>i. /\ [order |-> o, status |-> "expired"] \notin ipns /\ [order |-> o, status |-> "paid"] \notin ipns
      /\ order[o].status # "paid"
    BY <1>0 DEF RenewInv, GateOfSent
<1>2. GateOfSent'
    BY <1>0, <1>1, <1>i DEF RenewInv, GateOfSent, IpnStatuses
<1>3. GateOfWorking'
  <2>1. \A c \in Checkouts : Working(c) => checkout[c].order \in Orders \ {o}
      BY <1>0 DEF OrderInv, CheckoutOwnsOrder
  <2> QED BY <1>0, <1>1, <2>1 DEF RenewInv, GateOfWorking, Working
<1>4. PaidPastClaim' /\ ExpiredIsStored' /\ RenewalIsOut'
    BY <1>0, <1>1 DEF RenewInv, PaidPastClaim, ExpiredIsStored, EndIsStored, RenewalIsOut, Working
<1> QED BY <1>1, <1>2, <1>3, <1>4 DEF RenewInv

\* An order a checkout works on is neither paid nor expired.
LEMMA RenewCheckout ==
    ASSUME OrderInv, RenewInv, CheckoutStep
    PROVE  RenewInv'
<1>0. /\ UNCHANGED <<ipns, answered, handler, overtaken>> /\ offered \subseteq offered'
      /\ gate \in [Orders -> {"none", "open", "paid", "expired"}]
  <2>1. offered \subseteq offered'
      BY DEF CheckoutStep, BeginCheckout, BeginRenewals, CheckPending, SendEmail, CreateOrder,
         CreateRecord, StoreUrl, coingate
  <2> QED BY <2>1, CheckoutLeaves DEF RenewInv, GateType
<1>1. \A c \in Checkouts : Working(c) =>
          /\ checkout[c].order \in Orders /\ gate[checkout[c].order] \in {"none", "open"}
          /\ order[checkout[c].order].status # "none" /\ checkout[c].order \notin offered
    BY DEF OrderInv, CheckoutOwnsOrder, RenewInv, GateOfWorking
<1>2. ASSUME NEW c \in Checkouts, CreateRecord(c) PROVE RenewInv'
  <2>1. PICK o \in Orders :
            /\ order[o].status = "none" /\ order'[o].status = "new"
            /\ order'[o].renewal = (c = "renewal")
            /\ checkout'[c].pc = "call" /\ checkout'[c].order = o
            /\ \A d \in Checkouts \ {c} : checkout'[d] = checkout[d]
            /\ \A p \in Orders \ {o} : order'[p] = order[p]
      BY <1>2, CheckoutWrites
  <2>2. UNCHANGED <<gate, offered>> /\ checkout[c].pc = "create"
      BY <1>2 DEF CreateRecord, coingate
  <2>3. gate[o] = "none"
      BY <2>1 DEF RenewInv, GateOfSent
  <2>4. GateType' /\ GateOfSent' /\ PaidPastClaim'
      BY <1>0, <2>1, <2>2, <2>3 DEF RenewInv, GateType, GateOfSent, PaidPastClaim
  <2>5. GateOfWorking'
      BY <2>1, <2>2, <2>3 DEF RenewInv, GateOfWorking, Working
  <2>6. ExpiredIsStored'
    <3>1. ASSUME NEW h \in Handlers, handler[h].pc = "reply", handler[h].status = "expired"
          PROVE  handler[h].order \in Orders /\ EndIsStored(handler[h].order)
        BY <3>1 DEF RenewInv, ExpiredIsStored, OrderInv, OrderTypes, HandledWasSent, Ipns
    <3>2. \A p \in Orders : order[p].status = "expired" => order'[p].status = "expired"
        BY <2>1
    <3> QED BY <1>0, <3>1, <3>2 DEF RenewInv, ExpiredIsStored, EndIsStored
  <2>7. RenewalIsOut'
    <3>1. ASSUME NEW p \in Orders \ {o}, order[p].renewal, order[p].status # "none"
          PROVE  p \in offered' \/ (Working("renewal")' /\ checkout'["renewal"].order = p)
      <4>1. p \in offered \/ (Working("renewal") /\ checkout["renewal"].order = p)
          BY <3>1 DEF RenewInv, RenewalIsOut
      <4>2. CASE p \in offered
          BY <2>2, <4>2
      <4>3. CASE Working("renewal") /\ checkout["renewal"].order = p
        <5>1. checkout'["renewal"] = checkout["renewal"]
            BY <2>1, <2>2, <4>3 DEF Working, Checkouts
        <5> QED BY <4>3, <5>1 DEF Working
      <4> QED BY <4>1, <4>2, <4>3
    <3>2. order'[o].renewal => Working("renewal")' /\ checkout'["renewal"].order = o
        BY <2>1 DEF Working
    <3> QED BY <2>1, <3>1, <3>2 DEF RenewalIsOut
  <2> QED BY <2>4, <2>5, <2>6, <2>7 DEF RenewInv
<1>3. CASE ~ \E c \in Checkouts : CreateRecord(c)
  <2>1. \A o \in Orders :
            /\ \/ order'[o] = order[o]
               \/ order'[o].status = "new" /\ order'[o].renewal = order[o].renewal
            /\ order'[o] = order[o] \/ \E c \in Checkouts : Working(c) /\ checkout[c].order = o
    <3>1. ASSUME NEW c \in Checkouts, StoreUrl(c), NEW o \in Orders, order'[o] # order[o]
          PROVE  /\ order'[o].status = "new" /\ order'[o].renewal = order[o].renewal
                 /\ Working(c) /\ checkout[c].order = o
        BY <3>1, CheckoutWrites
    <3>2. ASSUME ~ \E c \in Checkouts : StoreUrl(c) PROVE order' = order
        BY <1>3, <3>2 DEF CheckoutStep, BeginCheckout, BeginRenewals, CheckPending, SendEmail, CreateOrder
    <3>3. ASSUME NEW o \in Orders, order'[o] # order[o]
          PROVE  /\ order'[o].status = "new" /\ order'[o].renewal = order[o].renewal
                 /\ \E c \in Checkouts : Working(c) /\ checkout[c].order = o
      <4>1. PICK c \in Checkouts : StoreUrl(c)
          BY <3>2, <3>3
      <4> QED BY <3>1, <3>3, <4>1
    <3> QED BY <3>3
  <2>2. \A o \in Orders :
            \/ gate'[o] = gate[o]
            \/ gate'[o] = "open" /\ \E c \in Checkouts : Working(c) /\ checkout[c].order = o
    <3>1. ASSUME NEW c \in Checkouts, CreateOrder(c), NEW o \in Orders, gate'[o] # gate[o]
          PROVE  gate'[o] = "open" /\ Working(c) /\ checkout[c].order = o
        BY <1>0, <3>1 DEF CreateOrder, Working
    <3>2. ASSUME NEW o \in Orders, gate'[o] # gate[o]
          PROVE  gate'[o] = "open" /\ \E c \in Checkouts : Working(c) /\ checkout[c].order = o
      <4>1. PICK c \in Checkouts : CreateOrder(c)
          BY <3>2, CheckoutLeaves
      <4> QED BY <3>1, <3>2, <4>1
    <3> QED BY <3>2
  <2>3. GateType'
    <3>1. ASSUME NEW c \in Checkouts, CreateOrder(c)
          PROVE  gate' = [gate EXCEPT ![checkout[c].order] = "open"]
        BY <3>1 DEF CreateOrder
    <3> QED BY <1>0, <3>1, CheckoutLeaves DEF GateType
  <2>4. GateOfSent' /\ PaidPastClaim'
    <3>1. ASSUME NEW o \in Orders, NEW c \in Checkouts, Working(c), checkout[c].order = o
          PROVE  /\ gate[o] \in {"none", "open"} /\ order[o].status \notin {"none", "paid"}
                 /\ \A s \in IpnStatuses : [order |-> o, status |-> s] \notin ipns
      <4>1. gate[o] \in {"none", "open"} /\ order[o].status # "none" /\ o \notin offered
          BY <1>1, <3>1
      <4> QED BY <4>1 DEF RenewInv, GateOfSent, IpnStatuses
    <3> DEFINE Right(o) ==
                   /\ [order |-> o, status |-> "expired"] \in ipns => gate[o] = "expired"
                   /\ [order |-> o, status |-> "pending"] \in ipns => gate[o] # "none" /\ o \in offered
                   /\ [order |-> o, status |-> "paid"] \in ipns => gate[o] = "paid"
                   /\ order[o].status = "paid" => gate[o] = "paid"
                   /\ order[o].status = "none" => gate[o] = "none"
    <3>2. ASSUME NEW o \in Orders PROVE Right(o)'
      <4>1. Right(o)
          BY DEF RenewInv, GateOfSent
      <4>2. CASE order'[o] = order[o] /\ gate'[o] = gate[o]
          BY <1>0, <4>1, <4>2
      <4>3. CASE \E c \in Checkouts : Working(c) /\ checkout[c].order = o
        <5>1. /\ order[o].status \notin {"none", "paid"}
              /\ \A s \in IpnStatuses : [order |-> o, status |-> s] \notin ipns
            BY <3>1, <4>3
        <5>2. order'[o].status \notin {"none", "paid"}
            BY <2>1, <5>1
        <5> QED BY <1>0, <5>1, <5>2 DEF IpnStatuses
      <4> QED BY <2>1, <2>2, <4>2, <4>3
    <3>3. GateOfSent'
        BY <3>2 DEF GateOfSent
    <3> QED BY <1>0, <3>3 DEF RenewInv, PaidPastClaim
  <2>5. GateOfWorking'
    <3>1. \A c \in Checkouts : Working(c)' => Working(c) /\ checkout'[c].order = checkout[c].order
        BY <1>3, CheckoutKeeps DEF Keeps
    <3> QED BY <1>1, <2>2, <3>1 DEF GateOfWorking
  <2>6. ExpiredIsStored'
    <3>1. ASSUME NEW o \in Orders, EndIsStored(o), [order |-> o, status |-> "expired"] \in ipns
          PROVE  order'[o].status = "expired" \/ o \in overtaken'
      <4>1. gate[o] = "expired"
          BY <3>1 DEF RenewInv, GateOfSent
      <4> QED BY <1>0, <1>1, <2>1, <3>1, <4>1 DEF EndIsStored
    <3>2. ASSUME NEW h \in Handlers, handler[h].pc = "reply", handler[h].status = "expired"
          PROVE  /\ handler[h].order \in Orders /\ EndIsStored(handler[h].order)
                 /\ [order |-> handler[h].order, status |-> "expired"] \in ipns
        BY <3>2 DEF RenewInv, ExpiredIsStored, OrderInv, OrderTypes, HandledWasSent, Ipns
    <3> QED BY <1>0, <3>1, <3>2 DEF RenewInv, ExpiredIsStored, EndIsStored
  <2>7. RenewalIsOut'
    <3>1. Keeps("renewal")
        BY <1>3, CheckoutKeeps DEF Checkouts
    <3>2. ASSUME NEW o \in Orders, order'[o].renewal, order'[o].status # "none"
          PROVE  o \in offered' \/ (Working("renewal")' /\ checkout'["renewal"].order = o)
      <4>1. order[o].renewal /\ order[o].status # "none"
          BY <1>1, <2>1, <3>2
      <4>2. CASE o \in offered
          BY <1>0, <4>2
      <4>3. CASE Working("renewal") /\ checkout["renewal"].order = o
          BY <3>1, <4>3 DEF Keeps
      <4> QED BY <4>1, <4>2, <4>3 DEF RenewInv, RenewalIsOut
    <3> QED BY <3>2 DEF RenewalIsOut
  <2> QED BY <2>3, <2>4, <2>5, <2>6, <2>7 DEF RenewInv
<1> QED BY <1>2, <1>3

LEMMA RenewNext ==
    ASSUME BillingInv, RenewInv, [Next]_vars, ~Failure, ~Crash
    PROVE  RenewInv'
<1>0. OrderInv
    BY DEF BillingInv
<1>1. CASE \/ \E value \in BOOLEAN : SetCancel(value)
           \/ CronStep \/ Tick \/ UNCHANGED vars
  <2>1. UNCHANGED <<order, gate, ipns, offered, answered, handler, checkout, overtaken>>
      BY <1>1 DEF SetCancel, CronStep, ListExpired, FailRow, SuspendUser, ListGraceExpired, MarkUnpaid,
         DeactivateUser, Tick, vars, coingate, history
  <2> QED BY <2>1 DEF RenewInv, GateType, GateOfSent, GateOfWorking, PaidPastClaim, ExpiredIsStored,
         EndIsStored, RenewalIsOut, Working
<1> QED BY <1>0, <1>1, RenewHandler, RenewGate, RenewCheckout DEF Next

LEMMA RenewInit == Init => RenewInv
<1> SUFFICES ASSUME Init PROVE RenewInv
    OBVIOUS
<1>1. /\ order = [o \in Orders |-> NoOrder] /\ gate = [o \in Orders |-> "none"]
      /\ answered = {} /\ ipns = {}
      /\ handler = [h \in Handlers |-> IdleHandler] /\ checkout = [c \in Checkouts |-> IdleCheckout]
    BY DEF Init
<1>2. GateType /\ GateOfSent /\ RenewalIsOut
    BY <1>1 DEF GateType, GateOfSent, RenewalIsOut, NoOrder
<1>3. GateOfWorking
    BY <1>1 DEF GateOfWorking, Working, IdleCheckout
<1>4. PaidPastClaim /\ ExpiredIsStored
    BY <1>1 DEF PaidPastClaim, ExpiredIsStored, IdleHandler
<1> QED BY <1>2, <1>3, <1>4 DEF RenewInv

\* Only the look for a pending order passes over a subscription.
LEMMA PassesOverIsCheck ==
    ASSUME OrderInv, [Next]_vars, PassesOver, Untroubled
    PROVE  /\ \E o \in Orders : order[o].renewal /\ order[o].status \in {"new", "pending"}
           /\ ~Working("renewal")
<1>0. CheckoutShape /\ "renewal" \in Checkouts /\ checkout["renewal"].pc = "check"
      /\ checkout'["renewal"] # checkout["renewal"] /\ troubles' = troubles
      /\ checkout'["renewal"].pc # "create"
    BY DEF PassesOver, OrderInv, OrderTypes, Checkouts
<1>1. CASE CheckPending
  <2> DEFINE pending == \E o \in Orders : PendingRenewal(o, Head(checkout["renewal"].todo).start)
  <2>1. pending \/ GoCheckout("renewal", "create")
      BY <1>1 DEF CheckPending, GoCheckout
  <2>2. pending
      BY <1>0, <2>1, CheckoutGoes
  <2> QED BY <1>0, <2>2 DEF PendingRenewal, Working
<1>2. CASE ~CheckPending
  <2>1. ~(Failure \/ Crash)
    <3>1. troubles \in [failures : {0}, crashes : {0}]
        BY DEF Untroubled
    <3>2. [troubles EXCEPT !.failures = @ + 1] # troubles /\ [troubles EXCEPT !.crashes = @ + 1] # troubles
        BY <3>1
    <3> QED BY <1>0, <3>2 DEF Failure, Crash
  <2>2. ASSUME NEW h \in Handlers, HandlerStep(h) PROVE checkout' = checkout
      BY <2>2 DEF HandlerStep, Deliver, Claim, ReadBase, FindExisting, WriteSubscription, WriteUser,
         Reward, Reply
  <2>3. ASSUME NEW o \in Orders, Pay(o) \/ AwaitPayment(o) \/ Expire(o) PROVE checkout' = checkout
      BY <2>3 DEF Pay, AwaitPayment, Expire
  <2>4. CASE \/ \E value \in BOOLEAN : SetCancel(value)
             \/ CronStep \/ Tick \/ UNCHANGED vars
      BY <1>0, <2>4 DEF SetCancel, CronStep, ListExpired, FailRow, SuspendUser, ListGraceExpired,
         MarkUnpaid, DeactivateUser, Tick, vars
  <2>5. CASE BeginCheckout
      BY <1>0, <2>5, CheckoutGoes DEF BeginCheckout, Checkouts
  <2>6. ~BeginRenewals /\ ~SendEmail
      BY <1>0 DEF BeginRenewals, SendEmail
  <2>7. ASSUME NEW c \in Checkouts, CreateRecord(c) \/ CreateOrder(c) \/ StoreUrl(c)
        PROVE  checkout'["renewal"] = checkout["renewal"]
    <3>1. c # "renewal"
        BY <1>0, <2>7 DEF CreateRecord, CreateOrder, StoreUrl
    <3>2. CASE CreateRecord(c)
        BY <1>0, <3>1, <3>2, CheckoutWrites
    <3>3. CASE CreateOrder(c)
        BY <1>0, <3>1, <3>3, CheckoutGoes DEF CreateOrder
    <3>4. CASE StoreUrl(c)
      <4>1. checkout' = [checkout EXCEPT ![c] = IdleCheckout]
          BY <3>1, <3>4 DEF StoreUrl, Checkouts
      <4> QED BY <1>0, <3>1, <4>1, CheckoutAt
    <3> QED BY <2>7, <3>2, <3>3, <3>4
  <2> QED BY <1>0, <1>2, <2>1, <2>2, <2>3, <2>4, <2>5, <2>6, <2>7 DEF Next, CheckoutStep
<1> QED BY <1>1, <1>2

\* When no call fails and the process does not crash, the renewal cron passes
\* over a subscription only when the user holds a link that can still be paid
\* or that CoinGate has not said to be over, or when the end of its order was
\* stored and a callback sent before it was stored over it (processCryptoRenewals'
\* look for a pending order): it holds for any number of handlers, because
\* CoinGate says of an order that it is paid or that it is over, never both, and
\* it is stored before it is answered.
THEOREM RenewalsAreOffered == ASSUME Reliable PROVE Spec => RenewalOffered
<1>1. Init => Untroubled /\ BillingInv /\ RenewInv
    BY InitHolds, HonourInit, RenewInit
<1>2. Untroubled /\ BillingInv /\ RenewInv /\ [Next]_vars => (Untroubled /\ BillingInv /\ RenewInv)'
    BY NextHolds, NoTrouble, RenewNext
<1> DEFINE LinkIsOut ==
               \E o \in offered :
                  /\ order[o].renewal
                  /\ gate[o] = "expired" =>
                        [order |-> o, status |-> "expired"] \notin answered \/ o \in overtaken
<1>3. ASSUME Untroubled, BillingInv, RenewInv, [Next]_vars, PassesOver PROVE LinkIsOut
  <2>1. PICK o \in Orders : order[o].renewal /\ order[o].status \in {"new", "pending"} /\ ~Working("renewal")
      BY <1>3, PassesOverIsCheck DEF BillingInv
  <2>2. o \in offered
      BY <1>3, <2>1 DEF RenewInv, RenewalIsOut
  <2>3. [order |-> o, status |-> "expired"] \notin answered \/ o \in overtaken
      BY <1>3, <2>1 DEF RenewInv, ExpiredIsStored, EndIsStored
  <2> QED BY <2>1, <2>2, <2>3
<1>4. Untroubled /\ BillingInv /\ RenewInv /\ [Next]_vars => [PassesOver => LinkIsOut]_vars
    BY <1>3
<1> QED BY <1>1, <1>2, <1>4, PTL DEF Spec, RenewalOffered

-----------------------------------------------------------------------------
(* One activity at a time: a payment adds a whole period *)

\* A callback that is being handled is the only thing under way that writes
\* the subscription.
Alone ==
    \A h \in Handlers : handler[h].pc # "idle" =>
        cron.pc = "idle" /\ \A g \in Handlers \ {h} : handler[g].pc = "idle"

\* What a handler has read of the newest row is still so.
EndIsKnown ==
    \A h \in Handlers : handler[h].pc \in {"find", "write"} =>
        LET row == subs[Len(subs)] IN
        Len(subs) # 0 /\ row.status = "ACTIVE" /\ row.end > now => handler[h].end = row.end + Period
RowIsKnown == \A h \in Handlers : handler[h].pc = "write" => handler[h].row = Len(subs)

SequentialInv == Alone /\ EndIsKnown /\ RowIsKnown

\* Who writes the record of a handler.
LEMMA HandlerWriters ==
    ASSUME BillingInv, [Next]_vars, NEW h \in Handlers
    PROVE  handler'[h] = handler[h] \/ handler'[h].pc = "idle" \/ HandlerStep(h)
<1>0. Calendar /\ OrderTypes
    BY DEF BillingInv, OrderInv
<1>1. ASSUME NEW g \in Handlers \ {h}, HandlerStep(g) PROVE handler'[h] = handler[h]
  <2>1. OneHandler(g)
      BY <1>0, <1>1, HandlerEffect, Zenon DEF HandlerStep
  <2> QED BY <2>1 DEF OneHandler
<1>2. ASSUME NEW o \in Orders, Pay(o) \/ AwaitPayment(o) \/ Expire(o) PROVE handler' = handler
    BY <1>2 DEF Pay, AwaitPayment, Expire
<1>3. CASE CheckoutStep
    BY <1>3, CheckoutLeaves
<1>4. CASE \/ \E value \in BOOLEAN : SetCancel(value)
           \/ CronStep \/ Tick \/ UNCHANGED vars
    BY <1>4 DEF SetCancel, CronStep, ListExpired, FailRow, SuspendUser, ListGraceExpired, MarkUnpaid,
       DeactivateUser, Tick, vars
<1>5. CASE Failure
  <2>1. PICK g \in Handlers : handler' = [handler EXCEPT ![g] = IdleHandler] \/ handler' = handler
      BY <1>5 DEF Failure
  <2>2. handler' = [handler EXCEPT ![g] = IdleHandler] => handler'[h] \in {handler[h], IdleHandler}
      BY <1>0 DEF OrderTypes
  <2> QED BY <2>1, <2>2 DEF IdleHandler
<1>6. CASE Crash
    BY <1>6 DEF Crash, IdleHandler
<1> QED BY <1>1, <1>2, <1>3, <1>4, <1>5, <1>6 DEF Next

\* What a handler's step leaves alone.
LEMMA HandlerLeaves ==
    ASSUME NEW h \in Handlers, HandlerStep(h)
    PROVE  /\ UNCHANGED <<now, cron>>
           /\ ~WriteSubscription(h) => UNCHANGED <<subs, paidUntil>>
           /\ ~WriteUser(h) => UNCHANGED user
BY DEF HandlerStep, Deliver, Claim, ReadBase, FindExisting, WriteSubscription, WriteUser,
       Reward, Reply, world, history

LEMMA AloneHolds ==
    ASSUME ~Overlap, BillingInv, Alone, [Next]_vars
    PROVE  Alone'
<1>0. Calendar /\ OrderTypes
    BY DEF BillingInv, OrderInv
<1>1. ASSUME NEW h \in Handlers, HandlerStep(h) PROVE Alone'
  <2>1. /\ cron.pc = "idle" /\ \A g \in Handlers \ {h} : handler[g].pc = "idle"
    <3>1. CASE handler[h].pc = "idle"
      <4>1. Deliver(h)
          BY <1>1, <3>1 DEF HandlerStep, Claim, ReadBase, FindExisting, WriteSubscription, WriteUser,
             Reward, Reply
      <4> QED BY <4>1 DEF Deliver, MayStart, Idle
    <3>2. CASE handler[h].pc # "idle"
        BY <3>2 DEF Alone
    <3> QED BY <3>1, <3>2
  <2>2. cron' = cron
      BY <1>1, HandlerLeaves
  <2>3. OneHandler(h)
      BY <1>0, <1>1, HandlerEffect, Zenon DEF HandlerStep
  <2> QED BY <2>1, <2>2, <2>3 DEF OneHandler, Alone
<1>2. ASSUME handler' = handler, \/ cron' = cron
                                 \/ cron'.pc = "idle"
                                 \/ cron.pc # "idle"
                                 \/ \A h \in Handlers : handler[h].pc = "idle"
      PROVE  Alone'
    BY <1>2 DEF Alone
<1>3. ASSUME NEW o \in Orders, Pay(o) \/ AwaitPayment(o) \/ Expire(o) PROVE Alone'
    BY <1>2, <1>3 DEF Pay, AwaitPayment, Expire
<1>4. CASE CheckoutStep
    BY <1>2, <1>4, CheckoutLeaves
<1>5. CASE CronStep
    BY <1>2, <1>5 DEF CronStep, ListExpired, FailRow, SuspendUser, ListGraceExpired, MarkUnpaid,
       DeactivateUser, MayStart, Idle
<1>6. CASE \/ \E value \in BOOLEAN : SetCancel(value)
           \/ Tick \/ UNCHANGED vars
    BY <1>2, <1>6 DEF SetCancel, Tick, vars
<1>7. CASE Failure \/ Crash
  <2>1. cron' = cron \/ cron'.pc = "idle"
      BY <1>7 DEF Failure, Crash, IdleCron
  <2>2. ASSUME NEW h \in Handlers PROVE handler'[h] = handler[h] \/ handler'[h].pc = "idle"
    <3>1. CASE Crash
        BY <3>1 DEF Crash, IdleHandler
    <3>2. CASE Failure
      <4>1. handler' = handler \/ \E g \in Handlers : handler' = [handler EXCEPT ![g] = IdleHandler]
          BY <3>2 DEF Failure
      <4>2. handler'[h] \in {handler[h], IdleHandler}
          BY <1>0, <4>1 DEF OrderTypes
      <4> QED BY <4>2 DEF IdleHandler
    <3> QED BY <1>7, <3>1, <3>2
  <2> QED BY <2>1, <2>2 DEF Alone
<1> QED BY <1>1, <1>3, <1>4, <1>5, <1>6, <1>7 DEF Next

\* Nobody writes the subscription of a handler that is about to.
LEMMA RowsStay ==
    ASSUME ~Overlap, BillingInv, Alone, [Next]_vars, NEW h \in Handlers,
           handler'[h].pc \in {"base", "find", "write"}
    PROVE  subs' = subs
<1>0. Calendar /\ OrderTypes
    BY DEF BillingInv, OrderInv
<1>1. ASSUME NEW g \in Handlers, WriteSubscription(g) PROVE FALSE
  <2>1. OneHandler(g) /\ Goes(g, "write", "user")
      BY <1>0, <1>1, HandlerEffect, Zenon
  <2>2. g # h /\ handler'[h] = handler[h]
      BY <2>1 DEF Goes, OneHandler
  <2> QED BY <2>1, <2>2 DEF Goes, Alone
<1>2. ASSUME NEW value \in BOOLEAN, SetCancel(value) PROVE FALSE
    BY <1>2 DEF SetCancel, MayStart, Idle
<1>3. ~FailRow /\ ~MarkUnpaid
    BY DEF FailRow, MarkUnpaid, Alone
<1> QED BY <1>1, <1>2, <1>3, SubsWriters

LEMMA SequentialNext ==
    ASSUME ~Overlap, BillingInv, SequentialInv, [Next]_vars
    PROVE  SequentialInv'
<1>0. Calendar /\ OrderTypes /\ Alone /\ now \in Nat
    BY DEF BillingInv, OrderInv, SequentialInv, Calendar
<1>1. Alone'
    BY <1>0, AloneHolds
<1>2. EndIsKnown'
  <2> DEFINE row == subs[Len(subs)]
  <2> SUFFICES ASSUME NEW h \in Handlers, handler'[h].pc \in {"find", "write"},
                      (Len(subs) # 0 /\ row.status = "ACTIVE" /\ row.end > now)'
               PROVE  handler'[h].end = row'.end + Period
      BY DEF EndIsKnown
  <2>1. subs' = subs
      BY <1>0, RowsStay
  <2>2. Len(subs) # 0 /\ row.status = "ACTIVE" /\ row.end > now
    <3>1. row \in SubRow
        BY <1>0, <2>1 DEF Calendar
    <3>2. row.end \in Nat
        BY <3>1 DEF SubRow
    <3>3. now' >= now
        BY <1>0, DaysPass
    <3> HIDE DEF row
    <3>4. row' = row
        BY <2>1 DEF row
    <3> QED BY <1>0, <2>1, <3>2, <3>3, <3>4, DaysPass
  <2>3. CASE handler'[h] = handler[h]
      BY <2>1, <2>2, <2>3 DEF SequentialInv, EndIsKnown
  <2>4. CASE ReadBase(h)
    <3>1. handler'[h].end = Base(subs) + Period
        BY <1>0, <2>4, HandlerEffect, Zenon
    <3> QED BY <2>1, <2>2, <3>1 DEF Base, Newest
  <2>5. CASE FindExisting(h)
    <3>1. Goes(h, "find", "write") /\ handler'[h].end = handler[h].end
        BY <1>0, <2>5, HandlerEffect, Zenon
    <3> QED BY <2>1, <2>2, <3>1 DEF SequentialInv, EndIsKnown, Goes
  <2>6. ASSUME HandlerStep(h) PROVE ReadBase(h) \/ FindExisting(h)
    <3>1. \/ ReadBase(h) \/ FindExisting(h)
          \/ handler'[h].pc = "claim" \/ handler'[h] = IdleHandler
          \/ \E to \in {"base", "reply", "user", "commission"} : handler'[h].pc = to
        BY <1>0, <2>6, HandlerEffect, Zenon DEF HandlerStep, Goes
    <3> QED BY <3>1 DEF IdleHandler
  <2> QED BY <1>0, <2>3, <2>4, <2>5, <2>6, HandlerWriters
<1>3. RowIsKnown'
  <2> SUFFICES ASSUME NEW h \in Handlers, handler'[h].pc = "write"
               PROVE  handler'[h].row = Len(subs')
      BY DEF RowIsKnown
  <2>1. subs' = subs
      BY <1>0, RowsStay
  <2>2. CASE handler'[h] = handler[h]
      BY <2>1, <2>2 DEF SequentialInv, RowIsKnown
  <2>3. CASE FindExisting(h)
      BY <1>0, <2>1, <2>3, HandlerEffect DEF Newest
  <2>4. ASSUME HandlerStep(h) PROVE FindExisting(h)
    <3>1. \/ FindExisting(h) \/ handler'[h] = IdleHandler
          \/ \E to \in {"claim", "base", "find", "reply", "user", "commission"} : handler'[h].pc = to
        BY <1>0, <2>4, HandlerEffect, Zenon DEF HandlerStep, Goes
    <3> QED BY <3>1 DEF IdleHandler
  <2> QED BY <1>0, <2>2, <2>3, <2>4, HandlerWriters
<1> QED BY <1>1, <1>2, <1>3 DEF SequentialInv

LEMMA SequentialInit == Init => SequentialInv
<1> SUFFICES ASSUME Init PROVE SequentialInv
    OBVIOUS
<1>1. handler = [h \in Handlers |-> IdleHandler]
    BY DEF Init
<1> QED BY <1>1 DEF SequentialInv, Alone, EndIsKnown, RowIsKnown, IdleHandler

\* What the handler writes.
LEMMA RowAtWrite ==
    ASSUME BillingInv, RowIsKnown, NEW h \in Handlers, WriteSubscription(h)
    PROVE  /\ handler[h].row = Len(subs) /\ handler[h].end \in Nat
           /\ Len(subs') = IF Len(subs) = 0 THEN 1 ELSE Len(subs)
           /\ subs'[Len(subs')].status = "ACTIVE" /\ subs'[Len(subs')].end = handler[h].end
           /\ paidUntil' = IF handler[h].end > paidUntil THEN handler[h].end ELSE paidUntil
<1> DEFINE n == Len(subs)
           end == handler[h].end
           start == handler[h].start
           first == [status |-> "ACTIVE", start |-> start, end |-> end, grace |-> 0, cancel |-> FALSE]
           r == [subs[n] EXCEPT !.status = "ACTIVE", !.start = start, !.end = end, !.grace = 0]
<1>0. subs \in Seq(SubRow) /\ n \in Nat /\ (n # 0 => subs[n] \in SubRow)
    BY DEF BillingInv, Calendar
<1>1. handler[h].row = n /\ end \in Nat /\ start \in Nat
  <2>1. handler[h] \in HandlerType
      BY DEF BillingInv, OrderInv, OrderTypes
  <2> QED BY <2>1 DEF HandlerType, WriteSubscription, RowIsKnown
<1>2. /\ subs' = IF n = 0 THEN Append(subs, first) ELSE [subs EXCEPT ![n] = r]
      /\ paidUntil' = IF end > paidUntil THEN end ELSE paidUntil
    BY <1>1 DEF WriteSubscription
<1>3. first \in SubRow /\ first.status = "ACTIVE" /\ first.end = end
    BY <1>1 DEF SubRow
<1>4. n # 0 => r \in SubRow /\ r.status = "ACTIVE" /\ r.end = end
    BY <1>0, <1>1 DEF SubRow
<1> HIDE DEF first, r, end, start
<1>5. CASE n = 0
  <2>1. subs' = Append(subs, first) /\ Len(Append(subs, first)) = 1 /\ Append(subs, first)[1] = first
      BY <1>0, <1>2, <1>3, <1>5
  <2> QED BY <1>1, <1>2, <1>3, <1>5, <2>1 DEF end
<1>6. CASE n # 0
  <2>1. subs' = [subs EXCEPT ![n] = r] /\ n \in DOMAIN subs /\ r \in SubRow
      BY <1>0, <1>2, <1>4, <1>6
  <2>2. Len(subs') = n /\ subs'[n] = r
      BY <1>0, <2>1, RowWritten
  <2> QED BY <1>1, <1>2, <1>4, <1>6, <2>2 DEF end
<1> QED BY <1>5, <1>6

LEMMA SequentialInvariant == ASSUME ~Overlap PROVE Spec => [](BillingInv /\ SequentialInv)
<1>1. Init => BillingInv /\ SequentialInv
    BY InitHolds, SequentialInit
<1>2. BillingInv /\ SequentialInv /\ [Next]_vars => (BillingInv /\ SequentialInv)'
    BY NextHolds, SequentialNext
<1> QED BY <1>1, <1>2, PTL DEF Spec

\* When handlers, checkouts and crons do not overlap, a payment adds a whole
\* period to the days that are left, whatever fails and however many payments
\* there are (handleCoinGateIpn, activateSubscriptionFromPayment): the row
\* is the one that was read, and a day that passes in between does not count.
THEOREM PaymentsExtend == ASSUME ~Overlap PROVE Spec => PaymentExtends
<1> DEFINE Extends ==
       \A h \in Handlers :
         LET i == handler[h].row IN
         handler[h].pc = "write" /\ handler'[h].pc = "user" /\ Newest(subs) # 0
             => LET row == subs[Len(subs)] IN
                /\ Len(subs') = Len(subs)
                /\ row.status = "ACTIVE" /\ row.end > now => subs'[i].end = row.end + Period
<1>1. ASSUME BillingInv, SequentialInv, [Next]_vars PROVE Extends
  <2> SUFFICES ASSUME NEW h \in Handlers, handler[h].pc = "write", handler'[h].pc = "user",
                      Len(subs) # 0
               PROVE  /\ Len(subs') = Len(subs)
                      /\ subs[Len(subs)].status = "ACTIVE" /\ subs[Len(subs)].end > now =>
                            subs'[handler[h].row].end = subs[Len(subs)].end + Period
      BY DEF Newest
  <2>1. WriteSubscription(h)
    <3>1. HandlerStep(h)
        BY <1>1, HandlerWriters
    <3> QED BY <3>1 DEF HandlerStep, Deliver, Claim, ReadBase, FindExisting, WriteUser, Reward, Reply
  <2>2. /\ handler[h].row = Len(subs) /\ Len(subs') = Len(subs)
        /\ subs'[Len(subs')].end = handler[h].end
      BY <1>1, <2>1, RowAtWrite DEF SequentialInv
  <2>3. subs[Len(subs)].status = "ACTIVE" /\ subs[Len(subs)].end > now =>
            handler[h].end = subs[Len(subs)].end + Period
      BY <1>1 DEF SequentialInv, EndIsKnown
  <2> QED BY <2>2, <2>3
<1>2. BillingInv /\ SequentialInv /\ [Next]_vars => [Extends]_vars
    BY <1>1
<1> QED BY <1>2, SequentialInvariant, PTL DEF Spec, PaymentExtends

-----------------------------------------------------------------------------
(* One activity at a time, and no call fails: the days paid for are served *)

\* The row, if there is one, ends on the last day paid for.
OneRow ==
    /\ Len(subs) <= 1 /\ paidUntil \in Nat
    /\ paidUntil = IF Len(subs) = 1 THEN subs[1].end ELSE 0
LapsedIsOver == Len(subs) = 1 /\ subs[1].status # "ACTIVE" => subs[1].end < now
EndIsLater == \A h \in Handlers : handler[h].pc \in {"find", "write"} => handler[h].end >= paidUntil

\* What the lifecycle cron has listed is still so.
CronKnows ==
    /\ cron = [pc |-> cron.pc, rows |-> cron.rows]
    /\ cron.pc \in {"fail", "suspend", "unpaid", "deactivate"} => cron.rows = {1} /\ Len(subs) = 1
    /\ cron.pc = "fail" => subs[1].end < now
    /\ cron.pc \in {"suspend", "unpaid", "deactivate"} => subs[1].status # "ACTIVE"
ActiveIsServed ==
    Len(subs) = 1 /\ subs[1].status = "ACTIVE" /\ (\A h \in Handlers : handler[h].pc # "user") =>
        user = "ACTIVE"

ServedInv == OneRow /\ LapsedIsOver /\ EndIsLater /\ CronKnows /\ ActiveIsServed

LEMMA RowCount ==
    ASSUME Calendar, OneRow
    PROVE  /\ Len(subs) \in {0, 1} /\ (subs # <<>> => Len(subs) = 1)
           /\ Len(subs) = 1 => 1 \in DOMAIN subs /\ subs[1] \in SubRow
<1>1. Len(subs) \in Nat /\ Len(subs) <= 1 /\ subs \in Seq(SubRow)
    BY DEF Calendar, OneRow
<1>2. subs # <<>> => Len(subs) # 0
    BY <1>1
<1>3. Len(subs) = 1 => 1 \in DOMAIN subs /\ subs[1] \in SubRow
    BY <1>1
<1> QED BY <1>1, <1>2, <1>3

LEMMA OneNext == ASSUME cron.rows = {1} PROVE NextRow = 1 /\ cron.rows \ {NextRow} = {}
<1>1. \A i \in cron.rows : i = 1
    OBVIOUS
<1>2. \E i \in cron.rows : \A j \in cron.rows : i <= j
    BY <1>1
<1>3. NextRow \in cron.rows
    BY <1>2 DEF NextRow
<1> QED BY <1>1, <1>3

\* A row that keeps its end and is not made ACTIVE.
LEMMA RowKept ==
    ASSUME ServedInv, Calendar, Len(subs) = 1, Len(subs') = 1, subs'[1].end = subs[1].end,
           subs'[1].status # "ACTIVE", subs[1].end < now, UNCHANGED <<now, paidUntil, handler>>
    PROVE  OneRow' /\ LapsedIsOver' /\ EndIsLater' /\ ActiveIsServed'
BY DEF ServedInv, OneRow, LapsedIsOver, EndIsLater, ActiveIsServed

LEMMA ServedCron ==
    ASSUME BillingInv, ServedInv, CronStep
    PROVE  ServedInv'
<1>0. /\ Calendar /\ now \in Nat /\ subs \in Seq(SubRow) /\ Grace \in Nat
      /\ OneRow /\ LapsedIsOver /\ EndIsLater /\ CronKnows /\ ActiveIsServed
    BY BillingAssumption DEF BillingInv, Calendar, ServedInv
<1>d. /\ \A i \in DOMAIN subs : i = 1 /\ Len(subs) = 1
      /\ Len(subs) = 1 => 1 \in DOMAIN subs /\ subs[1] \in SubRow
  <2>1. DOMAIN subs = 1..Len(subs) /\ Len(subs) \in Nat
      BY <1>0
  <2> QED BY <1>0, <2>1 DEF OneRow
<1>f. UNCHANGED <<now, paidUntil, handler>>
    BY DEF CronStep, ListExpired, FailRow, SuspendUser, ListGraceExpired, MarkUnpaid,
       DeactivateUser, world, history
<1>l. \A rows, pc, then :
          LoopOver(rows, pc, then) = [pc |-> IF rows = {} THEN then ELSE pc, rows |-> rows]
    BY DEF LoopOver
<1>p. ASSUME NEW pc, cron' = [cron EXCEPT !.pc = pc]
      PROVE  cron' = [pc |-> pc, rows |-> cron.rows]
    BY <1>0, <1>p DEF CronKnows
<1>k. ASSUME UNCHANGED <<subs, user>> PROVE OneRow' /\ LapsedIsOver' /\ EndIsLater' /\ ActiveIsServed'
    BY <1>0, <1>f, <1>k DEF OneRow, LapsedIsOver, EndIsLater, ActiveIsServed
<1>1. CASE ListExpired
  <2>1. UNCHANGED <<subs, user>> /\ cron' = LoopOver(Expired, "fail", "list")
      BY <1>1 DEF ListExpired
  <2>2. \A i \in Expired : i = 1 /\ Len(subs) = 1 /\ subs[1].end < now
      BY <1>d DEF Expired
  <2>3. Expired # {} => Expired = {1} /\ Len(subs) = 1 /\ subs[1].end < now
      BY <2>2
  <2>4. CronKnows'
      BY <1>f, <1>l, <2>1, <2>3 DEF CronKnows
  <2> QED BY <1>k, <2>1, <2>4 DEF ServedInv
<1>2. CASE FailRow
  <2>1. cron.rows = {1} /\ Len(subs) = 1 /\ subs[1].end < now /\ cron.pc = "fail"
      BY <1>0, <1>2 DEF FailRow, CronKnows
  <2>2. NextRow = 1
      BY <2>1, OneNext
  <2> DEFINE late == [subs[1] EXCEPT !.status = "PAST_DUE"]
             marked == [subs EXCEPT ![1] = late]
             day == now + Grace
             r == [marked[1] EXCEPT !.grace = day]
  <2>3. subs' = [marked EXCEPT ![1] = r]
      BY <1>2, <2>2 DEF FailRow
  <2>4. 1 \in DOMAIN subs /\ subs[1] \in SubRow
      BY <1>d, <2>1
  <2>5. late \in SubRow /\ late.status = "PAST_DUE" /\ late.end = subs[1].end
      BY <2>4 DEF SubRow
  <2> HIDE DEF late
  <2>6. marked \in Seq(SubRow) /\ Len(marked) = 1 /\ marked[1] = late
      BY <1>0, <2>1, <2>4, <2>5, RowWritten
  <2> HIDE DEF marked
  <2>7. r \in SubRow /\ r.status = "PAST_DUE" /\ r.end = subs[1].end
    <3>1. day \in Nat
        BY <1>0
    <3> HIDE DEF day
    <3> QED BY <2>5, <2>6, <3>1 DEF SubRow
  <2> HIDE DEF r
  <2>8. Len(subs') = 1 /\ subs'[1] = r
    <3>1. 1 \in DOMAIN marked
        BY <2>6
    <3> QED BY <2>3, <2>6, <2>7, <3>1, RowWritten
  <2>9. cron' = [pc |-> "suspend", rows |-> cron.rows]
      BY <1>2, <1>p DEF FailRow
  <2>10. CronKnows'
      BY <2>1, <2>7, <2>8, <2>9 DEF CronKnows
  <2> QED BY <1>0, <1>f, <2>1, <2>7, <2>8, <2>10, RowKept DEF ServedInv
<1>3. CASE SuspendUser \/ DeactivateUser
  <2>1. /\ cron.rows = {1} /\ subs[1].status # "ACTIVE" /\ UNCHANGED subs
        /\ \/ cron' = LoopOver(cron.rows \ {NextRow}, "fail", "list")
           \/ cron' = LoopOver(cron.rows \ {NextRow}, "unpaid", "idle")
      BY <1>0, <1>3 DEF SuspendUser, DeactivateUser, CronKnows
  <2>2. cron' = [pc |-> "list", rows |-> {}] \/ cron' = [pc |-> "idle", rows |-> {}]
      BY <1>l, <2>1, OneNext
  <2>3. OneRow' /\ LapsedIsOver' /\ EndIsLater' /\ ActiveIsServed'
      BY <1>0, <1>f, <2>1 DEF OneRow, LapsedIsOver, EndIsLater, ActiveIsServed
  <2> QED BY <2>2, <2>3 DEF ServedInv, CronKnows
<1>4. CASE ListGraceExpired
  <2>1. PICK today \in {now, now + 1} : /\ UNCHANGED <<subs, user>>
                                        /\ cron' = LoopOver(GraceExpired(today), "unpaid", "idle")
      BY <1>4 DEF ListGraceExpired
  <2> DEFINE rows == GraceExpired(today)
  <2>2. \A i \in rows : i = 1 /\ Len(subs) = 1 /\ subs[1].status # "ACTIVE"
      BY <1>d DEF GraceExpired
  <2> HIDE DEF rows
  <2>3. rows # {} => rows = {1} /\ Len(subs) = 1 /\ subs[1].status # "ACTIVE"
      BY <2>2
  <2>4. cron' = [pc |-> IF rows = {} THEN "idle" ELSE "unpaid", rows |-> rows]
      BY <1>l, <2>1 DEF rows
  <2>5. CronKnows'
      BY <2>1, <2>3, <2>4 DEF CronKnows
  <2> QED BY <1>k, <2>1, <2>5 DEF ServedInv
<1>5. CASE MarkUnpaid
  <2>1. cron.rows = {1} /\ Len(subs) = 1 /\ subs[1].status # "ACTIVE" /\ subs[1].end < now
      BY <1>0, <1>5 DEF MarkUnpaid, CronKnows, LapsedIsOver
  <2>2. NextRow = 1
      BY <2>1, OneNext
  <2> DEFINE r == [subs[1] EXCEPT !.status = "UNPAID"]
  <2>3. subs' = [subs EXCEPT ![1] = r]
      BY <1>5, <2>2 DEF MarkUnpaid
  <2>4. 1 \in DOMAIN subs /\ r \in SubRow /\ r.status = "UNPAID" /\ r.end = subs[1].end
      BY <1>d, <2>1 DEF SubRow
  <2> HIDE DEF r
  <2>5. Len(subs') = 1 /\ subs'[1] = r
      BY <1>0, <2>1, <2>3, <2>4, RowWritten
  <2>6. cron' = [pc |-> "deactivate", rows |-> cron.rows]
      BY <1>5, <1>p DEF MarkUnpaid
  <2>7. CronKnows'
      BY <2>1, <2>4, <2>5, <2>6 DEF CronKnows
  <2> QED BY <1>0, <1>f, <2>1, <2>4, <2>5, <2>7, RowKept DEF ServedInv
<1> QED BY <1>1, <1>2, <1>3, <1>4, <1>5 DEF CronStep

LEMMA ServedHandler ==
    ASSUME BillingInv, SequentialInv, ServedInv, NEW h \in Handlers, HandlerStep(h), Alone'
    PROVE  ServedInv'
<1>0. /\ Calendar /\ OrderTypes /\ now \in Nat /\ subs \in Seq(SubRow) /\ Period \in Nat /\ RowIsKnown
      /\ OneRow /\ LapsedIsOver /\ EndIsLater /\ CronKnows /\ ActiveIsServed
    BY BillingAssumption DEF BillingInv, OrderInv, Calendar, ServedInv, SequentialInv
<1>1. UNCHANGED <<now, cron>> /\ OneHandler(h)
    BY <1>0, HandlerEffect, HandlerLeaves, Zenon DEF HandlerStep
<1>2. CASE WriteSubscription(h)
  <2>1. handler[h].pc = "write" /\ handler'[h].pc = "user"
      BY <1>0, <1>2, HandlerEffect, Zenon DEF Goes
  <2>2. cron.pc = "idle" /\ \A g \in Handlers \ {h} : handler'[g].pc = "idle"
    <3>1. cron.pc = "idle" /\ \A g \in Handlers \ {h} : handler[g].pc = "idle"
        BY <2>1 DEF SequentialInv, Alone
    <3> QED BY <1>1, <3>1 DEF OneHandler
  <2>3. EndIsLater' /\ ActiveIsServed' /\ CronKnows'
      BY <1>0, <1>1, <2>1, <2>2 DEF EndIsLater, ActiveIsServed, CronKnows
  <2>4. handler[h].end \in Nat /\ handler[h].end >= paidUntil
    <3>1. handler[h].end \in Nat
        BY <1>0, <1>2, RowAtWrite
    <3> QED BY <1>0, <2>1, <3>1 DEF EndIsLater
  <2>5. Len(subs') = 1
    <3>1. Len(subs') = IF Len(subs) = 0 THEN 1 ELSE Len(subs)
        BY <1>0, <1>2, RowAtWrite
    <3> QED BY <1>0, <3>1, RowCount
  <2>6. /\ subs'[1].status = "ACTIVE" /\ subs'[1].end = handler[h].end
        /\ paidUntil' = handler[h].end
    <3>1. paidUntil' = IF handler[h].end > paidUntil THEN handler[h].end ELSE paidUntil
        BY <1>0, <1>2, RowAtWrite
    <3>2. paidUntil' = handler[h].end
        BY <1>0, <2>4, <3>1 DEF OneRow
    <3>3. subs'[Len(subs')].status = "ACTIVE" /\ subs'[Len(subs')].end = handler[h].end
        BY <1>0, <1>2, RowAtWrite
    <3> QED BY <2>5, <3>2, <3>3
  <2>7. OneRow' /\ LapsedIsOver'
      BY <2>4, <2>5, <2>6 DEF OneRow, LapsedIsOver
  <2> QED BY <2>3, <2>7 DEF ServedInv
<1>3. CASE ~WriteSubscription(h)
  <2>1. UNCHANGED <<subs, paidUntil>>
      BY <1>3, HandlerLeaves
  <2>2. OneRow' /\ LapsedIsOver' /\ CronKnows'
      BY <1>0, <1>1, <2>1 DEF OneRow, LapsedIsOver, CronKnows
  <2>3. ActiveIsServed'
    <3>1. CASE WriteUser(h)
        BY <3>1 DEF WriteUser, ActiveIsServed
    <3>2. CASE ~WriteUser(h)
      <4>1. user' = user /\ handler[h].pc # "user"
          BY <1>3, <3>2, HandlerLeaves DEF HandlerStep, Deliver, Claim, ReadBase, FindExisting,
             Reward, Reply
      <4>2. (\A g \in Handlers : handler'[g].pc # "user") => \A g \in Handlers : handler[g].pc # "user"
          BY <1>1, <4>1 DEF OneHandler
      <4> QED BY <1>0, <2>1, <4>1, <4>2 DEF ActiveIsServed
    <3> QED BY <3>1, <3>2
  <2>4. handler'[h].pc \in {"find", "write"} => handler'[h].end >= paidUntil
    <3>1. CASE ReadBase(h)
      <4>1. handler'[h].end = Base(subs) + Period
          BY <1>0, <3>1, HandlerEffect, Zenon
      <4>2. Base(subs) >= paidUntil /\ Base(subs) \in Nat
        <5>1. Base(subs) \in Nat
            BY <1>0, BaseIsDay
        <5>2. CASE Len(subs) = 1
          <6>1. subs[1] \in SubRow
              BY <1>0, <5>2
          <6>2. subs[1].end \in Nat /\ paidUntil = subs[1].end
              BY <1>0, <5>2, <6>1 DEF SubRow, OneRow
          <6> QED BY <1>0, <5>1, <5>2, <6>2 DEF Base, Newest, LapsedIsOver
        <5>3. CASE Len(subs) # 1
            BY <1>0, <5>1, <5>3 DEF OneRow
        <5> QED BY <5>1, <5>2, <5>3
      <4> QED BY <1>0, <4>1, <4>2 DEF OneRow
    <3>2. CASE FindExisting(h)
      <4>1. Goes(h, "find", "write") /\ handler'[h].end = handler[h].end
          BY <1>0, <3>2, HandlerEffect, Zenon
      <4> QED BY <1>0, <4>1 DEF Goes, EndIsLater
    <3>3. CASE ~ReadBase(h) /\ ~FindExisting(h)
      <4>1. \/ handler'[h] = IdleHandler
            \/ \E to \in {"claim", "base", "reply", "user", "commission"} : handler'[h].pc = to
          BY <1>0, <3>3, HandlerEffect, Zenon DEF HandlerStep, Goes
      <4> QED BY <4>1 DEF IdleHandler
    <3> QED BY <3>1, <3>2, <3>3
  <2>5. EndIsLater'
      BY <1>0, <1>1, <2>1, <2>4 DEF EndIsLater, OneHandler
  <2> QED BY <2>2, <2>3, <2>5 DEF ServedInv
<1> QED BY <1>2, <1>3

LEMMA ServedNext ==
    ASSUME ~Overlap, BillingInv, SequentialInv, ServedInv, [Next]_vars, ~Failure, ~Crash
    PROVE  ServedInv'
<1>0. /\ Calendar /\ now \in Nat /\ subs \in Seq(SubRow)
      /\ OneRow /\ LapsedIsOver /\ EndIsLater /\ CronKnows /\ ActiveIsServed
    BY DEF BillingInv, Calendar, ServedInv
<1>1. ASSUME NEW h \in Handlers, HandlerStep(h) PROVE ServedInv'
    BY <1>1, AloneHolds, ServedHandler DEF SequentialInv
<1>2. CASE CronStep
    BY <1>2, ServedCron
<1>3. ASSUME NEW value \in BOOLEAN, SetCancel(value) PROVE ServedInv'
  <2> DEFINE n == Len(subs)
             r == [subs[n] EXCEPT !.cancel = value]
  <2>1. /\ UNCHANGED <<now, user, handler, cron, paidUntil>>
        /\ n # 0 /\ subs' = [subs EXCEPT ![n] = r]
      BY <1>0, <1>3 DEF SetCancel, world, history
  <2>2. n = 1 /\ n \in DOMAIN subs /\ subs[n] \in SubRow
    <3>1. n = 1
        BY <1>0, <2>1, RowCount
    <3> QED BY <1>0, <3>1, RowCount
  <2>3. r \in SubRow /\ r.status = subs[1].status /\ r.end = subs[1].end
      BY <2>2 DEF SubRow
  <2> HIDE DEF r
  <2>4. Len(subs') = 1 /\ subs'[1] = r
      BY <1>0, <2>1, <2>2, <2>3, RowWritten
  <2> QED BY <1>0, <2>1, <2>2, <2>3, <2>4 DEF ServedInv, OneRow, LapsedIsOver, EndIsLater, CronKnows,
         ActiveIsServed
<1>4. CASE Tick
  <2>1. /\ UNCHANGED <<subs, user, handler, cron, paidUntil>>
        /\ now' = now + 1 /\ cron.pc = "idle"
      BY <1>4 DEF Tick, history
  <2>2. LapsedIsOver'
    <3>1. Len(subs) = 1 => subs[1].end \in Nat
      <4>1. Len(subs) = 1 => subs[1] \in SubRow
          BY <1>0
      <4> QED BY <4>1 DEF SubRow
    <3> QED BY <1>0, <2>1, <3>1 DEF LapsedIsOver
  <2> QED BY <1>0, <2>1, <2>2 DEF ServedInv, OneRow, EndIsLater, CronKnows, ActiveIsServed
<1>5. ASSUME UNCHANGED <<now, subs, user, handler, cron, paidUntil>> PROVE ServedInv'
    BY <1>0, <1>5 DEF ServedInv, OneRow, LapsedIsOver, EndIsLater, CronKnows, ActiveIsServed
<1>6. ASSUME NEW o \in Orders, Pay(o) \/ AwaitPayment(o) \/ Expire(o) PROVE ServedInv'
    BY <1>5, <1>6 DEF Pay, AwaitPayment, Expire, world, history
<1>7. CASE CheckoutStep
    BY <1>5, <1>7, CheckoutLeaves
<1>8. CASE UNCHANGED vars
    BY <1>5, <1>8 DEF vars, world, history
<1> QED BY <1>1, <1>2, <1>3, <1>4, <1>6, <1>7, <1>8 DEF Next

LEMMA ServedInit == Init => ServedInv
<1> SUFFICES ASSUME Init PROVE ServedInv
    OBVIOUS
<1> DEFINE row == [status |-> "ACTIVE", start |-> 0, end |-> Period, grace |-> 0, cancel |-> FALSE]
<1>1. /\ handler = [h \in Handlers |-> IdleHandler] /\ cron = IdleCron
      /\ \/ subs = <<>> /\ paidUntil = 0
         \/ subs = <<row>> /\ user = "ACTIVE" /\ paidUntil = Period
    BY DEF Init
<1>2. row.status = "ACTIVE" /\ row.end = Period /\ Period \in Nat
    BY BillingAssumption
<1> HIDE DEF row
<1>3. EndIsLater /\ CronKnows
    BY <1>1 DEF EndIsLater, CronKnows, IdleHandler, IdleCron
<1>4. CASE subs = <<>> /\ paidUntil = 0
  <2>1. Len(subs) = 0
      BY <1>4
  <2> QED BY <1>3, <1>4, <2>1 DEF ServedInv, OneRow, LapsedIsOver, ActiveIsServed
<1>5. CASE subs = <<row>> /\ user = "ACTIVE" /\ paidUntil = Period
  <2>1. Len(subs) = 1 /\ subs[1] = row
      BY <1>5
  <2> QED BY <1>2, <1>3, <1>5, <2>1 DEF ServedInv, OneRow, LapsedIsOver, ActiveIsServed
<1> QED BY <1>1, <1>4, <1>5

\* When handlers, checkouts and crons do not overlap and no call fails, a user
\* is ACTIVE with an ACTIVE subscription on every day paid for: the row ends
\* on the last of them, a row that is not ACTIVE has ended, and the lifecycle
\* cron fails only a row that has (processSubscriptionLifecycle).
THEOREM PaidDaysAreServed == ASSUME Reliable, ~Overlap PROVE Spec => []PaidDaysServed
<1> DEFINE IInv == Untroubled /\ BillingInv /\ SequentialInv /\ ServedInv
<1>1. Init => IInv
    BY InitHolds, HonourInit, SequentialInit, ServedInit
<1>2. IInv /\ [Next]_vars => IInv'
    BY NextHolds, NoTrouble, SequentialNext, ServedNext
<1>3. IInv => PaidDaysServed
  <2> SUFFICES ASSUME BillingInv, ServedInv, Quiet, subs # <<>>, now <= paidUntil
               PROVE  user = "ACTIVE" /\ \E i \in DOMAIN subs : subs[i].status = "ACTIVE"
      BY DEF PaidDaysServed
  <2>1. Len(subs) = 1 /\ 1 \in DOMAIN subs /\ subs[1] \in SubRow
      BY RowCount DEF BillingInv, ServedInv
  <2>2. subs[1].end \in Nat /\ now \in Nat /\ paidUntil = subs[1].end
      BY <2>1 DEF SubRow, BillingInv, Calendar, ServedInv, OneRow
  <2>3. subs[1].status = "ACTIVE"
      BY <2>1, <2>2 DEF ServedInv, LapsedIsOver
  <2>4. \A h \in Handlers : handler[h].pc # "user"
      BY DEF Quiet, Idle
  <2> QED BY <2>1, <2>3, <2>4 DEF ServedInv, ActiveIsServed
<1> QED BY <1>1, <1>2, <1>3, PTL DEF Spec
=============================================================================
