------------------------------ MODULE SandboxShop ------------------------------
(***************************************************************************)
(* The sandbox's shop (internal/sandbox/shop): one region's store of carts,*)
(* orders, payments and shipments, which every handler changes under the   *)
(* store's mutex.  A charge and a shipment take two critical sections, with*)
(* the simulated latency between them.  A call that is refused leaves the  *)
(* store alone, so only calls that get through are actions.                *)
(*                                                                         *)
(* Tokens are in TokenCache; the stale read, the rate limit's count, names,*)
(* dates and numbers that nothing reads are left out.                      *)
(***************************************************************************)
EXTENDS Naturals, Sequences, FiniteSets, FiniteSetsExt, Functions, TLC

CONSTANTS
  Client,     \* the callers of charge and ship
  Sku,        \* the catalog
  Price,      \* region.price of each SKU
  Stock,      \* product.Available of each SKU
  Region,     \* [taxIncluded, tax (a fraction <<n, d>>), tiers]
  Coupons,    \* code -> [percentOff, freeShipping, here]; here: good in this region
  TrackingWarmupCalls,
  Radix, Width,         \* IDs are printed with at least Width digits (10 and 4)
  Limit,      \* the page size of a listing
  SeqBefore,  \* orders that were made and deleted before
  MaxOrders, MaxResets, \* bounds
  Charged     \* bound: the orders that clients charge

ASSUME ShopAssumption ==
  /\ SeqBefore \in Nat
  /\ Radix \in Nat \ {0, 1} /\ Width \in Nat
  /\ Limit \in Nat \ {0}

VARIABLES
  carts, orders, shipments, payments, refunds, returns,    \* ID -> record
  seq,        \* prefix -> the last ID
  call,       \* what each client's charge or shipment in progress works on
  listing,    \* a client that pages through the orders
  resets      \* how often the shop was reset

store == <<carts, orders, shipments, payments, refunds, returns, seq>>
shopVars == <<store, call, listing, resets>>

None == "none"
Idle == [op |-> "idle"]
NoListing == [at |-> 0, ids |-> <<>>, stayed |-> {}, over |-> TRUE]

Prefix == {"cart", "ord", "shp", "pay", "ref", "ret"}
NewStore(before) ==
  /\ carts' = <<>> /\ orders' = <<>> /\ shipments' = <<>>
  /\ payments' = <<>> /\ refunds' = <<>> /\ returns' = <<>>
  /\ seq' = [p \in Prefix |-> before]

ShopInit ==
  /\ carts = <<>> /\ orders = <<>> /\ shipments = <<>>
  /\ payments = <<>> /\ refunds = <<>> /\ returns = <<>>
  /\ seq = [p \in Prefix |-> IF p \in {"cart", "ord"} THEN SeqBefore ELSE 0]
  /\ call = [c \in Client |-> Idle]
  /\ listing = NoListing
  /\ resets = 0

NextID(prefix) == seq[prefix] + 1
Put(f, id, r) == [x \in DOMAIN f \cup {id} |-> IF x = id THEN r ELSE f[x]]
Drop(f, id) == [x \in DOMAIN f \ {id} |-> f[x]]

-----------------------------------------------------------------------------
(* Money: math.Round of n/d, away from zero at a half. *)
Round(n, d) == (2 * n + d) \div (2 * d)

PercentOff(amount, pct) == Round(amount * pct, 100)

(* Tax to add, or the part of the price that it is. *)
Tax(taxable) ==
  LET n == Region.tax[1]
      d == Region.tax[2]
  IN  IF Region.taxIncluded THEN taxable - Round(taxable * d, d + n)
      ELSE Round(taxable * n, d)

(* computeTotals. *)
Total(lines, code, tier) ==
  LET subtotal == MapThenSumSet(LAMBDA s : Price[s] * lines[s], DOMAIN lines)
      discount == IF code = None THEN 0 ELSE PercentOff(subtotal, Coupons[code].percentOff)
      free     == code # None /\ Coupons[code].freeShipping
      taxable  == subtotal - discount
  IN  taxable + (IF free THEN 0 ELSE Region.tiers[tier])
        + (IF Region.taxIncluded THEN 0 ELSE Tax(taxable))

-----------------------------------------------------------------------------
(* Carts. *)

(* Bounds: one cart is open at a time, and a reset shop gets one cart more. *)
CartBound ==
  /\ \A id \in DOMAIN carts : carts[id].status # "open"
  /\ seq["cart"] < (IF resets = 0 THEN MaxOrders ELSE 1)

CreateCart ==
  /\ CartBound
  /\ seq' = [seq EXCEPT !["cart"] = @ + 1]
  /\ carts' = Put(carts, NextID("cart"), [status |-> "open", lines |-> <<>>, coupon |-> None])
  /\ UNCHANGED <<orders, shipments, payments, refunds, returns, call, listing, resets>>

InCart(id, sku) == IF sku \in DOMAIN carts[id].lines THEN carts[id].lines[sku] ELSE 0

InStock(id, sku, quantity) == InCart(id, sku) + quantity <= Stock[sku]

AddItem(id, sku, quantity) ==
  /\ carts[id].status = "open"
  /\ Stock[sku] > 0 /\ InStock(id, sku, quantity)
  /\ carts' = [carts EXCEPT ![id].lines = Put(@, sku, InCart(id, sku) + quantity)]
  /\ UNCHANGED <<orders, shipments, payments, refunds, returns, seq, call, listing, resets>>

DeleteCart(id) ==
  /\ carts' = Drop(carts, id)
  /\ UNCHANGED <<orders, shipments, payments, refunds, returns, seq, call, listing, resets>>

ApplyCoupon(id, code) ==
  /\ carts[id].status = "open"
  /\ Coupons[code].here
  /\ carts' = [carts EXCEPT ![id].coupon = code]
  /\ UNCHANGED <<orders, shipments, payments, refunds, returns, seq, call, listing, resets>>

(* Every request from here on may change the orders that a listing sees. *)
Listed(gone) == listing' = [listing EXCEPT !.stayed = @ \ gone]

Checkout(id, tier) ==
  /\ carts[id].status = "open"
  /\ carts[id].lines # <<>>
  /\ carts' = [carts EXCEPT ![id].status = "checked_out"]
  /\ orders' = Put(orders, NextID("ord"),
                   [status |-> "created", payStatus |-> "unpaid", lines |-> carts[id].lines,
                    total |-> Total(carts[id].lines, carts[id].coupon, tier),
                    payment |-> 0, shipment |-> 0])
  /\ seq' = [seq EXCEPT !["ord"] = @ + 1]
  /\ UNCHANGED <<shipments, payments, refunds, returns, call, listing, resets>>

-----------------------------------------------------------------------------
(* The order state machine. *)
Transitions ==
  [created   |-> [pay |-> "paid", cancel |-> "cancelled"],
   paid      |-> [ship |-> "shipped", cancel |-> "cancelled"],
   shipped   |-> [deliver |-> "delivered"],
   delivered |-> [return |-> "returned"],
   returned  |-> <<>>,
   cancelled |-> <<>>]

Can(action, o) == o \in DOMAIN orders /\ action \in DOMAIN Transitions[orders[o].status]
Moved(action, o) == [orders[o] EXCEPT !.status = Transitions[@][action]]

DeleteOrder(o) ==
  /\ orders' = Drop(orders, o)
  /\ Listed({o})
  /\ UNCHANGED <<carts, shipments, payments, refunds, returns, seq, call, resets>>

CancelOrder(o) ==
  /\ Can("cancel", o)
  /\ orders' = [orders EXCEPT ![o] = Moved("cancel", o)]
  /\ UNCHANGED <<carts, shipments, payments, refunds, returns, seq, call, listing, resets>>

(* The first critical section of a charge (its amount is the order's total, or
   it is refused here) and of a shipment. *)
Begin(c, op, action, o) ==
  /\ call[c] = Idle
  /\ Can(action, o)
  /\ call' = [call EXCEPT ![c] = [op |-> op, order |-> o, amount |-> orders[o].total]]
  /\ UNCHANGED <<store, listing, resets>>

BeginCharge(c, o) == o \in Charged /\ Begin(c, "charge", "pay", o)
BeginShip(c, o) == Begin(c, "ship", "ship", o)

Answered(c) == call' = [call EXCEPT ![c] = Idle]

(* Mutant of StillCan: the order is not looked at again after the wait. *)
StillThere(action, o) == o \in DOMAIN orders

StillCan(action, o) == Can(action, o)

(* The second critical section: the order is looked up and moved again. *)
EndCharge(c) ==
  /\ call[c].op = "charge"
  /\ StillCan("pay", call[c].order)
  /\ LET o == call[c].order
         p == NextID("pay")
     IN  /\ seq' = [seq EXCEPT !["pay"] = p]
         /\ payments' = Put(payments, p,
                            [order |-> o, amount |-> call[c].amount, refunded |-> 0,
                             status |-> "captured"])
         /\ orders' = [orders EXCEPT ![o] =
                         [@ EXCEPT !.status = "paid", !.payStatus = "captured", !.payment = p]]
  /\ Answered(c)
  /\ UNCHANGED <<carts, shipments, refunds, returns, listing, resets>>

EndShip(c) ==
  /\ call[c].op = "ship"
  /\ StillCan("ship", call[c].order)
  /\ LET o == call[c].order
         s == NextID("shp")
     IN  /\ seq' = [seq EXCEPT !["shp"] = s]
         /\ shipments' = Put(shipments, s, [order |-> o, status |-> "in_transit", polls |-> 0])
         /\ orders' = [orders EXCEPT ![o] = [@ EXCEPT !.status = "shipped", !.shipment = s]]
  /\ Answered(c)
  /\ UNCHANGED <<carts, payments, refunds, returns, listing, resets>>

(* Refused: the card was declined or the gift card doesn't hold the amount, the
   order has gone or has moved, or the shop was reset and the store that the
   call works on is nobody's any more. *)
EndRefused(c) ==
  /\ call[c].op \in {"charge", "ship", "orphan"}
  /\ call[c].op = "ship" => ~StillCan("ship", call[c].order)
  /\ Answered(c)
  /\ UNCHANGED <<store, listing, resets>>

Refunded(p, amount) == payments[p].refunded + amount

(* A refund of part of a payment, or of what remains. *)
Refund(o, amount) ==
  /\ orders[o].payment \in DOMAIN payments
  /\ LET p == orders[o].payment
         remaining == payments[p].amount - payments[p].refunded
         status == IF Refunded(p, amount) = payments[p].amount
                   THEN "refunded" ELSE "partially_refunded"
     IN  /\ remaining > 0 /\ amount <= remaining
         /\ refunds' = Put(refunds, NextID("ref"), [payment |-> p, order |-> o, amount |-> amount])
         /\ payments' = [payments EXCEPT ![p].refunded = Refunded(p, amount), ![p].status = status]
         /\ orders' = [orders EXCEPT ![o].payStatus = status]
  /\ seq' = [seq EXCEPT !["ref"] = @ + 1]
  /\ UNCHANGED <<carts, shipments, returns, call, listing, resets>>

(* A read of a shipment: the first ones are refused while tracking warms up. *)
GetShipment(s) ==
  /\ shipments[s].polls <= TrackingWarmupCalls    \* bound
  /\ shipments' = [shipments EXCEPT ![s].polls = @ + 1]
  /\ UNCHANGED <<carts, orders, payments, refunds, returns, seq, call, listing, resets>>

DeliverShipment(s) ==
  /\ Can("deliver", shipments[s].order)
  /\ orders' = [orders EXCEPT ![shipments[s].order] = Moved("deliver", shipments[s].order)]
  /\ shipments' = [shipments EXCEPT ![s].status = "delivered"]
  /\ UNCHANGED <<carts, payments, refunds, returns, seq, call, listing, resets>>

CreateReturn(o) ==
  /\ Can("return", o)
  /\ orders' = [orders EXCEPT ![o] = Moved("return", o)]
  /\ returns' = Put(returns, NextID("ret"), [order |-> o])
  /\ seq' = [seq EXCEPT !["ret"] = @ + 1]
  /\ UNCHANGED <<carts, shipments, payments, refunds, call, listing, resets>>

(* New stores: calls in progress keep the one they have. *)
Reset ==
  /\ resets < MaxResets
  /\ resets' = resets + 1
  /\ NewStore(0)
  /\ call' = [c \in Client |-> IF call[c] = Idle THEN Idle ELSE [op |-> "orphan"]]
  /\ listing' = NoListing

-----------------------------------------------------------------------------
(* listOrders. *)

Digits[n \in Nat] == IF n < Radix THEN <<n>> ELSE Append(Digits[n \div Radix], n % Radix)

(* The digits of an ID as %04d prints them. *)
Printed(id) ==
  LET d == Digits[id]
  IN  [i \in 1..Max({Width - Len(d), 0}) |-> 0] \o d

TextBefore(a, b) ==
  LET least == Min({Len(a), Len(b)})
      differ == {i \in 1..least : a[i] # b[i]}
  IN  IF differ = {} THEN Len(a) < Len(b) ELSE a[Min(differ)] < b[Min(differ)]

(* Mutant of ComesBefore: IDs compare as text. *)
ComesBeforeAsText(a, b) == TextBefore(Printed(a), Printed(b))

(* compareIDs. *)
ComesBefore(a, b) ==
  \/ Len(Printed(a)) < Len(Printed(b))
  \/ Len(Printed(a)) = Len(Printed(b)) /\ TextBefore(Printed(a), Printed(b))

(* The page after a cursor, none at 0: the first Limit orders after it. *)
Page(cursor) ==
  LET listed == {o \in DOMAIN orders : cursor = 0 \/ ComesBefore(cursor, o)}
      place(o) == Cardinality({x \in listed : ComesBefore(x, o)}) + 1
  IN  [i \in 1..Min({Limit, Cardinality(listed)}) |-> CHOOSE o \in listed : place(o) = i]

(* meta.after: the last ID of a full page, even when it is the last page. *)
NextCursor(page) == IF Len(page) = Limit THEN page[Limit] ELSE 0

(* A client reads the first page, and each page that a cursor leads to. *)
ListFirst ==
  /\ listing = NoListing
  /\ listing' = [at |-> NextCursor(Page(0)), ids |-> Page(0), stayed |-> DOMAIN orders,
                 over |-> NextCursor(Page(0)) = 0]
  /\ UNCHANGED <<store, call, resets>>

ListNext ==
  /\ ~listing.over
  /\ LET page == Page(listing.at)
     IN  listing' = [listing EXCEPT !.at = NextCursor(page), !.ids = @ \o page,
                                    !.over = NextCursor(page) = 0]
  /\ UNCHANGED <<store, call, resets>>

ShopNext ==
  \/ CreateCart
  \/ \E id \in DOMAIN carts :
       \/ DeleteCart(id)
       \/ \E sku \in Sku, n \in 1..2 : AddItem(id, sku, n)
       \/ \E code \in DOMAIN Coupons : ApplyCoupon(id, code)
       \/ \E tier \in DOMAIN Region.tiers : Checkout(id, tier)
  \/ \E o \in DOMAIN orders :
       \/ DeleteOrder(o) \/ CancelOrder(o) \/ CreateReturn(o)
       \/ \E c \in Client : BeginCharge(c, o) \/ BeginShip(c, o)
       \/ \E amount \in 1..orders[o].total : Refund(o, amount)
  \/ \E s \in DOMAIN shipments : GetShipment(s) \/ DeliverShipment(s)
  \/ \E c \in Client : EndCharge(c) \/ EndShip(c) \/ EndRefused(c)
  \/ Reset
  \/ ListFirst \/ ListNext

ShopSpec == ShopInit /\ [][ShopNext]_shopVars

-----------------------------------------------------------------------------
PaymentsOf(o) == {p \in DOMAIN payments : payments[p].order = o}
ShipmentsOf(o) == {s \in DOMAIN shipments : shipments[s].order = o}
RefundsOf(p) == {r \in DOMAIN refunds : refunds[r].payment = p}
ReturnsOf(o) == {r \in DOMAIN returns : returns[r].order = o}

(* However charges and shipments overlap with each other, a cancellation or a
   deletion while they wait, an order is paid and shipped at most once, its
   status says which of these was done, and the records agree with it
   (orders.go:32, "the single source of truth"). *)
StatusTellsWhatWasDone ==
  /\ \A o \in 1..seq["ord"] : Cardinality(PaymentsOf(o)) <= 1 /\ Cardinality(ShipmentsOf(o)) <= 1
  /\ \A o \in DOMAIN orders :
       LET r == orders[o]
       IN  /\ r.status = "created" => PaymentsOf(o) = {}
           /\ r.status \notin {"created", "cancelled"} => PaymentsOf(o) # {}
           /\ PaymentsOf(o) = (IF r.payment = 0 THEN {} ELSE {r.payment})
           /\ r.status \in {"shipped", "delivered", "returned"} <=> ShipmentsOf(o) # {}
           /\ ShipmentsOf(o) = (IF r.shipment = 0 THEN {} ELSE {r.shipment})
           /\ r.status \in {"delivered", "returned"} <=>
                \E s \in ShipmentsOf(o) : shipments[s].status = "delivered"
           /\ r.status = "returned" <=> ReturnsOf(o) # {}

(* Paging through the orders while others are made and deleted lists each one
   that is there from the first page to the last, and none twice, past the ID
   that needs a digit more (handlers_order.go:96). *)
ListsEveryOrderOnce ==
  /\ \A i, j \in DOMAIN listing.ids : i < j => listing.ids[i] < listing.ids[j]
  /\ listing.over => listing.stayed \subseteq Range(listing.ids)
=============================================================================
