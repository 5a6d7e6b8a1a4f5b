--------------------------------- MODULE Cart ---------------------------------
(***************************************************************************)
(* The cart and what its controller makes of it.  POST /cart/:userId       *)
(* checks the stock, as the product cache remembers it, adds a row and     *)
(* emits CART_CHECKOUT_REQUESTED.  The cart orchestrator answers by        *)
(* reading the user's cart, announcing what it has read in                 *)
(* ORDER_CREATED, and removing these rows one by one, all at once.         *)
(* PATCH and DELETE change rows meanwhile.  Nobody creates the order:      *)
(* the handlers of ORDER_CREATED work with an orderId it does not have     *)
(* and fail.                                                               *)
(*                                                                         *)
(* A row is named by the POST that creates it.  A task is one caller's     *)
(* read and write of one row: a PATCH, a DELETE, or one removal of a       *)
(* checkout.                                                               *)
(*                                                                         *)
(* A definition named like the one below it with a suffix (DeleteCart      *)
(* above Delete) is a faulty variant of it: no action uses it, and put     *)
(* in the definition's place it makes a property of this module fail.      *)
(***************************************************************************)
EXTENDS Integers

CONSTANTS
    Users,
    Adds,      \* POST requests, and the rows they create
    Updates,   \* PATCH requests
    Removals,  \* DELETE requests
    UserOf,    \* the user each request names
    RowOf,     \* the row a PATCH or DELETE names
    Quantity,  \* the quantity a POST or PATCH asks for
    Stock0,    \* the most there is of the one variant
    None       \* nothing cached

Requests == Adds \cup Updates \cup Removals

ASSUME CartAssumption ==
    /\ UserOf \in [Requests -> Users]
    /\ RowOf \in [Updates \cup Removals -> Adds]
    /\ Quantity \in [Adds \cup Updates -> Nat \ {0}]
    /\ Stock0 \in Nat
    /\ None \notin Nat
    /\ Adds \cap (Updates \cup Removals) = {}
    /\ Updates \cap Removals = {}

Tasks == {<<e, RowOf[e]>> : e \in Updates \cup Removals} \cup (Adds \X Adds)

VARIABLES
    stock,      \* ProductVariant.stockQuantity
    cached,     \* the stock the product cache holds, or None
    row,        \* UserCart rows: "none", "in" or "gone"
    quantity,   \* UserCart.quantity
    pc,         \* how far each POST is
    seen,       \* the stock a POST has read
    checkout,   \* its checkout: "none", "asked", "announced" or "over"
    basket,     \* the rows the checkout has read and announced
    task        \* how far each task is

addVars == <<pc, seen>>
vars == <<stock, cached, row, quantity, addVars, checkout, basket, task>>

TypeOK ==
    /\ stock \in 0 .. Stock0
    /\ cached \in 0 .. Stock0 \cup {None}
    /\ row \in [Adds -> {"none", "in", "gone"}]
    /\ quantity \in [Adds -> Nat]
    /\ pc \in [Adds -> {"idle", "lookup", "fetch", "fill", "decide", "added", "refused"}]
    /\ seen \in [Adds -> 0 .. Stock0]
    /\ checkout \in [Adds -> {"none", "asked", "announced", "over"}]
    /\ basket \in [Adds -> SUBSET Adds]
    /\ task \in [Tasks -> {"idle", "find", "write", "ok", "failed"}]

Init ==
    /\ stock = Stock0
    /\ cached = None
    /\ row = [a \in Adds |-> "none"]
    /\ quantity = [a \in Adds |-> 0]
    /\ pc = [a \in Adds |-> "idle"]
    /\ seen = [a \in Adds |-> 0]
    /\ checkout = [a \in Adds |-> "none"]
    /\ basket = [a \in Adds |-> {}]
    /\ task = [t \in Tasks |-> "idle"]

-----------------------------------------------------------------------------
(* addToCart *)

Goto(a, label) == pc' = [pc EXCEPT ![a] = label]

Post(a) ==
    /\ pc[a] = "idle"
    /\ Goto(a, "lookup")
    /\ UNCHANGED <<stock, cached, row, quantity, seen, checkout, basket, task>>

\* getProductById goes through the cache: a hit is an answer.
Hit(a) ==
    /\ pc[a] = "lookup"
    /\ cached # None
    /\ seen' = [seen EXCEPT ![a] = cached]
    /\ Goto(a, "decide")
    /\ UNCHANGED <<stock, cached, row, quantity, checkout, basket, task>>

Miss(a) ==
    /\ pc[a] = "lookup"
    /\ cached = None
    /\ Goto(a, "fetch")
    /\ UNCHANGED <<stock, cached, row, quantity, seen, checkout, basket, task>>

Fetch(a) ==
    /\ pc[a] = "fetch"
    /\ seen' = [seen EXCEPT ![a] = stock]
    /\ Goto(a, "fill")
    /\ UNCHANGED <<stock, cached, row, quantity, checkout, basket, task>>

\* What was fetched is cached, whatever has been cached or sold since.
Fill(a) ==
    /\ pc[a] = "fill"
    /\ cached' = seen[a]
    /\ Goto(a, "decide")
    /\ UNCHANGED <<stock, row, quantity, seen, checkout, basket, task>>

\* The row is added, answered, and CART_CHECKOUT_REQUESTED goes out.
AddRow(a) ==
    /\ pc[a] = "decide"
    /\ seen[a] >= Quantity[a]
    /\ row' = [row EXCEPT ![a] = "in"]
    /\ quantity' = [quantity EXCEPT ![a] = Quantity[a]]
    /\ checkout' = [checkout EXCEPT ![a] = "asked"]
    /\ Goto(a, "added")
    /\ UNCHANGED <<stock, cached, seen, basket, task>>

RefuseRow(a) ==
    /\ pc[a] = "decide"
    /\ seen[a] < Quantity[a]
    /\ Goto(a, "refused")
    /\ UNCHANGED <<stock, cached, row, quantity, seen, checkout, basket, task>>

-----------------------------------------------------------------------------
(* The checkout *)

InCart(u) == {r \in Adds : row[r] = "in" /\ UserOf[r] = u}

\* handleCartCheckout reads the cart, announces it in ORDER_CREATED and starts to
\* remove what it has read.  It does not wait for the stock checks it asks for.
ReadCart(a) ==
    LET items == InCart(UserOf[a])
    IN  /\ checkout[a] = "asked"
        /\ items # {}
        /\ checkout' = [checkout EXCEPT ![a] = "announced"]
        /\ basket' = [basket EXCEPT ![a] = items]
        /\ task' = [t \in Tasks |-> IF t \in {a} \X items THEN "find" ELSE task[t]]
        /\ UNCHANGED <<stock, cached, row, quantity, addVars>>

\* 'Cart is empty': CART_VALIDATION_FAILED, which nobody listens to.
CartEmpty(a) ==
    /\ checkout[a] = "asked"
    /\ InCart(UserOf[a]) = {}
    /\ checkout' = [checkout EXCEPT ![a] = "over"]
    /\ UNCHANGED <<stock, cached, row, quantity, addVars, basket, task>>

\* The stock checks look the product up, and what they find stops nothing: for too
\* little stock CART_VALIDATION_FAILED goes out, which nobody listens to.  And
\* ORDER_CREATED has no orderId: handlePaymentInitiation finds no order, and
\* PAYMENT_FAILED none to cancel.
HandleOrderCreated(a) ==
    /\ checkout[a] = "announced"
    /\ checkout' = [checkout EXCEPT ![a] = "over"]
    /\ cached' = IF cached = None THEN stock ELSE cached
    /\ UNCHANGED <<stock, row, quantity, addVars, basket, task>>

-----------------------------------------------------------------------------
(* updateQuantity and removeFromCart: findById, then the write *)

Mark(t, state) == task' = [task EXCEPT ![t] = state]

Begin(e) ==
    /\ task[<<e, RowOf[e]>>] = "idle"
    /\ Mark(<<e, RowOf[e]>>, "find")
    /\ UNCHANGED <<stock, cached, row, quantity, addVars, checkout, basket>>

Find(t) ==
    /\ task[t] = "find"
    /\ Mark(t, IF row[t[2]] = "in" /\ UserOf[t[1]] = UserOf[t[2]] THEN "write" ELSE "failed")
    /\ UNCHANGED <<stock, cached, row, quantity, addVars, checkout, basket>>

Update(t) ==
    /\ task[t] = "write"
    /\ t[1] \in Updates
    /\ row[t[2]] = "in"
    /\ quantity' = [quantity EXCEPT ![t[2]] = Quantity[t[1]]]
    /\ Mark(t, "ok")
    /\ UNCHANGED <<stock, cached, row, addVars, checkout, basket>>

DeleteCart(t) ==
    /\ task[t] = "write"
    /\ t[1] \notin Updates
    /\ row[t[2]] = "in"
    /\ row' = [r \in Adds |-> IF r \in InCart(UserOf[t[1]]) THEN "gone" ELSE row[r]]
    /\ Mark(t, "ok")
    /\ UNCHANGED <<stock, cached, quantity, addVars, checkout, basket>>
Delete(t) ==
    /\ task[t] = "write"
    /\ t[1] \notin Updates
    /\ row[t[2]] = "in"
    /\ row' = [row EXCEPT ![t[2]] = "gone"]
    /\ Mark(t, "ok")
    /\ UNCHANGED <<stock, cached, quantity, addVars, checkout, basket>>

\* The row is gone since it was found: Prisma's P2025.
WriteFailsSilently(t) ==
    /\ task[t] = "write"
    /\ row[t[2]] # "in"
    /\ Mark(t, "ok")
    /\ UNCHANGED <<stock, cached, row, quantity, addVars, checkout, basket>>
WriteFails(t) ==
    /\ task[t] = "write"
    /\ row[t[2]] # "in"
    /\ Mark(t, "failed")
    /\ UNCHANGED <<stock, cached, row, quantity, addVars, checkout, basket>>

-----------------------------------------------------------------------------
(* Around it *)

\* Payments and cancellations move the stock.
StockMoves ==
    /\ stock' \in 0 .. Stock0
    /\ UNCHANGED <<cached, row, quantity, addVars, checkout, basket, task>>

CacheExpires ==
    /\ cached # None
    /\ cached' = None
    /\ UNCHANGED <<stock, row, quantity, addVars, checkout, basket, task>>

AddStep(a) ==
    Hit(a) \/ Miss(a) \/ Fetch(a) \/ Fill(a) \/ AddRow(a) \/ RefuseRow(a)

CheckoutStep(a) == ReadCart(a) \/ CartEmpty(a) \/ HandleOrderCreated(a)

TaskStep(t) == Find(t) \/ Update(t) \/ Delete(t) \/ WriteFails(t)

Next ==
    \/ \E a \in Adds : Post(a) \/ AddStep(a) \/ CheckoutStep(a)
    \/ \E e \in Updates \cup Removals : Begin(e)
    \/ \E t \in Tasks : TaskStep(t)
    \/ StockMoves
    \/ CacheExpires

Spec == Init /\ [][Next]_vars

-----------------------------------------------------------------------------
(* Properties *)

\* The tasks that have removed a row.
Removers(r) ==
    {t \in Tasks : t[1] \notin Updates /\ t[2] = r /\ task[t] = "ok"}

\* However checkouts, DELETEs and new rows overtake one another, a row that is gone
\* was removed for its own user: by a DELETE of it, or by a checkout that has read
\* it and announced it in ORDER_CREATED.
GoneIsAnnounced ==
    \A r \in Adds : row[r] = "gone" =>
        \E t \in Removers(r) : /\ UserOf[t[1]] = UserOf[r]
                               /\ t[1] \in Adds => r \in basket[t[1]]

\* Two checkouts read the same rows, and a DELETE may name one of them: only one
\* of all these removals succeeds.
RemovedOnce == \A r \in Adds : \A t, s \in Removers(r) : t = s
=============================================================================
