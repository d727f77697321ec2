---------------------------- MODULE BillingPages ----------------------------
(***************************************************************************)
(* Subscribing, paying and cancelling: SubscriptionOnboarding.tsx and      *)
(* SubscriptionManagement.tsx of the user, admin/PricingTiers.tsx, and     *)
(* banker/app/server.py with Stripe's webhook behind it.                   *)
(*                                                                         *)
(* The pages' handlers have no catch: a request that throws leaves the     *)
(* page submitting, verifying or cancelling until it is opened again.      *)
(*                                                                         *)
(* Abstractions: one user, with one page open, and one administrator; the  *)
(* steps of the onboarding are walked and dialogs filled in and confirmed  *)
(* in one step; every tier is a professional one and is its id and its     *)
(* price; ids count up; what a chain or Stripe answers about a payment is  *)
(* not predicted; a payment record is counted at its subscription;         *)
(* /users/me/payments reads the subscriptions in one step.  Subscriptions  *)
(* are verified by Stripe's webhook alone, as no page calls                *)
(* /payments/verify for it, and its failed invoices match no row: they     *)
(* name a subscription of Stripe's and the banker stores a checkout        *)
(* session.                                                                *)
(***************************************************************************)
EXTENDS Fetch, FiniteSets, FiniteSetsExt

CONSTANTS
  None,          \* no tier, no subscription, no dialog
  MaxSteps,      \* bound: what the user does
  MaxEdits,      \* bound: what the administrator does
  MaxFlight,     \* bound: requests in flight when a handler starts
  MaxDeliveries, \* bound: deliveries of the webhook
  MaxFaults      \* bound: requests that fail, those of the banker included

VARIABLES server, view, flight, past

vars == <<server, view, flight, past>>

Prices == {1, 2}

Methods == {"stripe", "interac", "crypto"}

ASSUME NoneAssumption ==
  None \notin [id : Nat, kind : Methods \cup {"nodeop_free"}] /\ None \notin Nat

MaxAttempts == 3

\* Wrong variant: the second statement of each branch is missing.
PendingPayment(method) == "pending_payment"

\* The status of a subscription that waits for its payment.
Pending(method) ==
  CASE method = "interac" -> "pending_interac"
    [] method = "crypto" -> "pending_crypto"
    [] OTHER -> "pending_payment"

MayAct == past.steps < MaxSteps /\ Len(flight) < MaxFlight

Counted == [past EXCEPT !.steps = @ + 1]

Send(op, arg) == flight' = Append(flight, Request(op, arg))

\* Answers for a page that was left find nobody.
Orphaned(fs) ==
  [i \in DOMAIN fs |-> IF fs[i].op \in {"tiers", "status", "payments", "create", "verify", "cancel"}
                       THEN [fs[i] EXCEPT !.arg.live = FALSE] ELSE fs[i]]

Fresh(page) ==
  [page |-> page, checked |-> FALSE, nodeop |-> FALSE, active |-> FALSE, paid |-> FALSE,
   tiers |-> {}, result |-> None, submitting |-> FALSE, verifying |-> FALSE,
   subs |-> {}, cancelling |-> FALSE]

User(v) == view' = [view EXCEPT !.user = v]

Now == view.user

-----------------------------------------------------------------------------
(* SubscriptionOnboarding. *)

\* Its two effects ask for the user's status and for the tiers.
OpenOnboarding ==
  /\ MayAct
  /\ User(Fresh("subscribe"))
  /\ flight' = Orphaned(flight) \o <<Request("status", [live |-> TRUE]),
                                     Request("tiers", [live |-> TRUE])>>
  /\ past' = Counted
  /\ UNCHANGED server

\* The steps are shown until the user has paid, and not before the status is answered.
ShowsSteps == Now.page = "subscribe" /\ Now.checked /\ ~Now.paid

ShowsPlan(tier) == tier \in Now.tiers

ShowsMethod(method) == method \in Methods

\* The third step, before anything was created; what was created stays when the user
\* goes back and chooses another plan.
ShowsSummary == ShowsSteps /\ Now.result = None /\ ~Now.submitting

\* handleConfirm, after a plan and a method were chosen.
Confirm(tier, method) ==
  /\ MayAct /\ ShowsSummary /\ ShowsPlan(tier) /\ ShowsMethod(method)
  /\ User([Now EXCEPT !.submitting = TRUE])
  /\ Send("create", [live |-> TRUE, tier |-> tier.id, method |-> method])
  /\ past' = Counted
  /\ UNCHANGED server

\* The banner goes by the status of the time when the page was opened.
OffersNodeop == Now.page = "subscribe" /\ Now.nodeop /\ ~Now.active /\ ~Now.submitting

NodeopSubscribe ==
  /\ MayAct /\ OffersNodeop
  /\ User([Now EXCEPT !.submitting = TRUE])
  /\ \E tier \in Now.tiers :
       Send("create", [live |-> TRUE, tier |-> tier.id, method |-> "nodeop_free"])
  /\ past' = Counted
  /\ UNCHANGED server

\* The forms for the proof of payment.
AsksForProof(method) ==
  ShowsSteps /\ ~Now.submitting /\ ~Now.verifying /\ Now.result \in [id : Nat, kind : {method}]

Verifying(method) ==
  /\ MayAct /\ AsksForProof(method)
  /\ User([Now EXCEPT !.verifying = TRUE])
  /\ Send("verify", [live |-> TRUE, id |-> Now.result.id, provider |-> method])
  /\ past' = Counted
  /\ UNCHANGED server

VerifyCrypto == Verifying("crypto")

VerifyInterac == Verifying("interac")

-----------------------------------------------------------------------------
(* SubscriptionManagement. *)

OpenManagement ==
  /\ MayAct
  /\ User(Fresh("manage"))
  /\ flight' = Append(Orphaned(flight), Request("payments", [live |-> TRUE]))
  /\ past' = Counted
  /\ UNCHANGED server

\* The first active one of a list that begins with the newest.
ActiveSub(subs) == LET active == {s.id : s \in {x \in subs : x.status = "active"}}
                   IN IF active = {} THEN None ELSE Max(active)

\* The dialog cancels whichever subscription is shown as active when it is confirmed.
Cancel ==
  /\ MayAct /\ Now.page = "manage" /\ ~Now.cancelling
  /\ ActiveSub(Now.subs) # None
  /\ User([Now EXCEPT !.cancelling = TRUE])
  /\ Send("cancel", [live |-> TRUE, id |-> ActiveSub(Now.subs)])
  /\ past' = Counted
  /\ UNCHANGED server

-----------------------------------------------------------------------------
(* PricingTiers. *)

Rows == Request("rows", [live |-> TRUE])

MayEdit == past.edits < MaxEdits /\ Len(flight) < MaxFlight

Edited == [past EXCEPT !.edits = @ + 1]

\* What the dialog sends: a new tier, or one of the rows as they are shown.
NewTier == [id |-> 0, price |-> 1]

SaveTier(tier, price) ==
  /\ MayEdit /\ tier \in view.rows \cup {NewTier}
  /\ Send("save", [live |-> TRUE, tier |-> [tier EXCEPT !.price = price]])
  /\ past' = Edited
  /\ UNCHANGED <<server, view>>

DeleteTier(tier) ==
  /\ MayEdit /\ tier \in view.rows
  /\ Send("remove", [live |-> TRUE, id |-> tier.id])
  /\ past' = Edited
  /\ UNCHANGED <<server, view>>

-----------------------------------------------------------------------------
(* The banker. *)

Tier(id) == {t \in server.tiers : t.id = id}

Sub(tier, method, status, checkout) ==
  [tier |-> tier, method |-> method, status |-> status, failed |-> 0,
   succeeded |-> IF status = "active" THEN 1 ELSE 0, checkout |-> checkout]

ServeTiers(i) ==
  /\ i \in Waiting(flight, "tiers") \cup Waiting(flight, "rows")
  /\ flight' = Served(flight, i, "ok", server.tiers)
  /\ UNCHANGED <<server, view, past>>

\* Asking for the status is meant to suspend the free subscription of a node that is off
\* for long, but the statement names a column that is not there and its error is dropped.
ServeStatus(i) ==
  /\ i \in Waiting(flight, "status")
  /\ flight' = Served(flight, i, "ok",
       {[nodeop |-> server.nodeop,
         active |-> \E id \in DOMAIN server.subs : server.subs[id].status = "active"]})
  /\ UNCHANGED <<server, view, past>>

ServePayments(i) ==
  /\ i \in Waiting(flight, "payments")
  /\ flight' = Served(flight, i, "ok",
       {[id |-> id, status |-> server.subs[id].status] : id \in DOMAIN server.subs})
  /\ UNCHANGED <<server, view, past>>

\* A tier with an id that is gone is created again under it; without one it gets a new id.
ServeSaveTier(i) ==
  LET tier == flight[i].arg.tier
      id == IF tier.id = 0 THEN past.tiers + 1 ELSE tier.id
  IN /\ i \in Waiting(flight, "save")
     /\ server' = [server EXCEPT !.tiers = (@ \ Tier(id)) \cup {[tier EXCEPT !.id = id]}]
     /\ flight' = Served(flight, i, "ok", {})
     /\ past' = [past EXCEPT !.tiers = IF tier.id = 0 THEN id ELSE @]
     /\ UNCHANGED view

ServeDeleteTier(i) ==
  /\ i \in Waiting(flight, "remove")
  /\ server' = [server EXCEPT !.tiers = @ \ Tier(flight[i].arg.id)]
  /\ flight' = Served(flight, i, "ok", {})
  /\ UNCHANGED <<view, past>>

\* POST /subscriptions/create.  A node check that fails makes the user no node operator;
\* the row is there before Stripe is asked, and before the method is looked at.
Created(nodeop, tier, method, stripe) ==
  CASE nodeop -> Sub(tier, "nodeop_free", "active", "none")
    [] ~nodeop /\ method = "stripe" /\ stripe -> Sub(tier, method, "pending_payment", "open")
    [] OTHER -> Sub(tier, method, Pending(method), "none")

ServeCreate(i, failed) ==
  LET arg == flight[i].arg
      nodeop == server.nodeop /\ "node-check" \notin failed
      sub == Created(nodeop, arg.tier, arg.method, "stripe" \notin failed)
      answered == sub.checkout = "open" \/ sub.method \in {"nodeop_free", "interac", "crypto"}
      id == Len(server.subs) + 1
  IN /\ i \in Waiting(flight, "create")
     /\ past.faults + Cardinality(failed) <= MaxFaults
     /\ past' = [past EXCEPT !.faults = @ + Cardinality(failed)]
     /\ IF Tier(arg.tier) = {}
        THEN flight' = Served(flight, i, "refused", {}) /\ UNCHANGED server
        ELSE /\ server' = [server EXCEPT !.subs = Append(@, sub)]
             /\ flight' = IF answered /\ (sub.method = "nodeop_free" => nodeop)
                          THEN Served(flight, i, "ok", {[id |-> id, kind |-> sub.method]})
                          ELSE Served(flight, i, "refused", {})
     /\ UNCHANGED view

\* handle_payment_success, whatever state the subscription is in; nothing when its tier
\* is gone.
Succeeded(sub) ==
  IF Tier(sub.tier) = {} THEN sub
  ELSE [sub EXCEPT !.status = "active", !.failed = 0, !.succeeded = @ + 1]

\* handle_payment_failure.
Attempted(sub) ==
  [sub EXCEPT !.failed = @ + 1,
              !.status = IF sub.failed + 1 >= MaxAttempts THEN "suspended" ELSE @]

\* POST /payments/verify: any Interac code is taken, a transaction is looked up.
ServeVerify(i, verified) ==
  LET id == flight[i].arg.id
      sub == server.subs[id]
  IN /\ i \in Waiting(flight, "verify")
     /\ flight[i].arg.provider = "interac" => verified
     /\ server' = [server EXCEPT !.subs[id] = IF verified THEN Succeeded(sub) ELSE Attempted(sub)]
     /\ flight' = CASE ~verified -> Served(flight, i, "ok", {"failed"})
                    [] verified /\ Tier(sub.tier) = {} -> Served(flight, i, "refused", {})
                    [] OTHER -> Served(flight, i, "ok", {"verified"})
     /\ UNCHANGED <<view, past>>

\* The history `cancelled` has the subscriptions that the user had cancelled.
Cancelled(i) ==
  /\ flight' = Served(flight, i, "ok", {})
  /\ past' = [past EXCEPT !.cancelled = @ \cup {flight[i].arg.id}]
  /\ UNCHANGED view

\* Wrong variant: the connection is closed before its commit.
ServeCancelUnsaved(i) ==
  /\ i \in Waiting(flight, "cancel")
  /\ Cancelled(i)
  /\ UNCHANGED server

ServeCancel(i) ==
  /\ i \in Waiting(flight, "cancel")
  /\ Cancelled(i)
  /\ server' = [server EXCEPT !.subs[flight[i].arg.id].status = "cancelled"]

Fail(i) ==
  /\ past.faults < MaxFaults
  /\ flight[i].outcome # "throws"
  /\ flight' = Served(flight, i, "throws", {})
  /\ past' = [past EXCEPT !.faults = @ + 1]
  /\ UNCHANGED <<server, view>>

-----------------------------------------------------------------------------
(* Stripe. *)

Pays(id) ==
  /\ server.subs[id].checkout = "open"
  /\ server' = [server EXCEPT !.subs[id].checkout = "paid"]
  /\ UNCHANGED <<view, flight, past>>

\* checkout.session.completed, delivered once or more; the histories tell which.
Webhook(id) ==
  /\ past.deliveries < MaxDeliveries
  /\ server.subs[id].checkout = "paid"
  /\ server' = [server EXCEPT !.subs[id] = Succeeded(@)]
  /\ past' = [past EXCEPT !.deliveries = @ + 1, !.delivered = @ \cup {id},
                          !.redelivered = IF id \in past.delivered THEN @ \cup {id} ELSE @]
  /\ UNCHANGED <<view, flight>>

-----------------------------------------------------------------------------
(* What the handlers do with the answers. *)

Answer(i, op) == i \in Answers(flight, op) /\ flight[i].arg.live

\* A handler that changes what the user's page shows.
Then(i, v) ==
  /\ User(v)
  /\ flight' = Handled(flight, i)
  /\ UNCHANGED <<server, past>>

HandleStatus(i) ==
  /\ Answer(i, "status")
  /\ IF flight[i].outcome = "ok"
     THEN \E s \in flight[i].data :
            Then(i, [Now EXCEPT !.checked = TRUE, !.nodeop = s.nodeop, !.active = s.active,
                                !.paid = @ \/ s.active])
     ELSE Then(i, [Now EXCEPT !.checked = TRUE])

HandleTiers(i) ==
  /\ Answer(i, "tiers")
  /\ Then(i, IF flight[i].outcome = "ok" THEN [Now EXCEPT !.tiers = flight[i].data] ELSE Now)

\* With a checkout_url the browser leaves for Stripe.
HandleCreate(i) ==
  /\ Answer(i, "create")
  /\ CASE flight[i].outcome = "ok" ->
            \E r \in flight[i].data :
              IF r.kind = "stripe" THEN Then(i, Fresh("closed"))
              ELSE Then(i, [Now EXCEPT !.submitting = FALSE, !.result = r,
                                       !.paid = @ \/ r.kind = "nodeop_free"])
       [] flight[i].outcome = "refused" -> Then(i, [Now EXCEPT !.submitting = FALSE])
       [] OTHER -> Then(i, Now)

\* Wrong variant: the answer's status is not looked at.
VerifiedIfAnswered(r) == r.outcome = "ok"

Verified(r) == r.outcome = "ok" /\ r.data = {"verified"}

HandleVerify(i) ==
  /\ Answer(i, "verify")
  /\ IF flight[i].outcome = "throws" THEN Then(i, Now)
     ELSE Then(i, [Now EXCEPT !.verifying = FALSE, !.paid = @ \/ Verified(flight[i])])

HandlePayments(i) ==
  /\ Answer(i, "payments")
  /\ Then(i, IF flight[i].outcome = "ok" THEN [Now EXCEPT !.subs = flight[i].data] ELSE Now)

HandleCancel(i) ==
  /\ Answer(i, "cancel")
  /\ IF flight[i].outcome = "ok"
     THEN /\ User([Now EXCEPT !.cancelling = FALSE])
          /\ flight' = Append(Handled(flight, i), Request("payments", [live |-> TRUE]))
          /\ UNCHANGED <<server, past>>
     ELSE Then(i, [Now EXCEPT !.cancelling = flight[i].outcome = "throws"])

HandleRows(i) ==
  /\ Answer(i, "rows")
  /\ view' = IF flight[i].outcome = "ok" THEN [view EXCEPT !.rows = flight[i].data] ELSE view
  /\ flight' = Handled(flight, i)
  /\ UNCHANGED <<server, past>>

\* handleSave and handleDelete load the tiers again.
HandleTier(i) ==
  /\ Answer(i, "save") \/ Answer(i, "remove")
  /\ flight' = IF flight[i].outcome = "ok"
               THEN Append(Handled(flight, i), Rows) ELSE Handled(flight, i)
  /\ UNCHANGED <<server, view, past>>

Dropped(i) ==
  /\ flight[i].outcome # "none" /\ ~flight[i].arg.live
  /\ flight' = Handled(flight, i)
  /\ UNCHANGED <<server, view, past>>

-----------------------------------------------------------------------------
(* The specification. *)

Init ==
  /\ server \in [tiers : {{[id |-> 1, price |-> 1]}}, subs : {<<>>}, nodeop : BOOLEAN]
  /\ view = [user |-> Fresh("closed"), rows |-> {}]
  /\ flight = <<Rows>>
  /\ past = [steps |-> 0, edits |-> 0, faults |-> 0, tiers |-> 1, deliveries |-> 0,
             delivered |-> {}, redelivered |-> {}, cancelled |-> {}]

Next ==
  \/ OpenOnboarding \/ NodeopSubscribe \/ VerifyCrypto \/ VerifyInterac
  \/ OpenManagement \/ Cancel
  \/ \E tier \in Now.tiers, method \in Methods : Confirm(tier, method)
  \/ \E tier \in view.rows \cup {NewTier}, price \in Prices : SaveTier(tier, price)
  \/ \E tier \in view.rows : DeleteTier(tier)
  \/ \E id \in DOMAIN server.subs : Pays(id) \/ Webhook(id)
  \/ \E i \in DOMAIN flight :
       \/ ServeTiers(i) \/ ServeStatus(i) \/ ServePayments(i)
       \/ ServeSaveTier(i) \/ ServeDeleteTier(i) \/ ServeCancel(i) \/ Fail(i)
       \/ \E failed \in SUBSET {"node-check", "stripe"} : ServeCreate(i, failed)
       \/ \E verified \in BOOLEAN : ServeVerify(i, verified)
       \/ HandleStatus(i) \/ HandleTiers(i) \/ HandleCreate(i) \/ HandleVerify(i)
       \/ HandlePayments(i) \/ HandleCancel(i) \/ HandleRows(i) \/ HandleTier(i)
       \/ Dropped(i)

Spec == Init /\ [][Next]_vars

-----------------------------------------------------------------------------
(* Properties. *)

\* Tiers, subscriptions, pages and requests keep their types, and a subscription that waits
\* for its payment waits for the one that its user chose.
TypeOK ==
  LET Ids == DOMAIN server.subs
      Tiers == [id : 1 .. past.tiers, price : Prices]
  IN /\ server.tiers \subseteq Tiers /\ \A t, u \in server.tiers : t.id = u.id => t = u
     /\ \A id \in Ids :
          /\ server.subs[id].status \in {"active", "suspended", "cancelled"}
                                          \cup {Pending(m) : m \in Methods}
          /\ server.subs[id].status = "pending_payment" =>
               server.subs[id].method \in {"stripe", "nodeop_free"}
          /\ server.subs[id].status = "suspended" => server.subs[id].failed >= MaxAttempts
     /\ Now.tiers \subseteq Tiers
     /\ Now.result \in [id : Ids, kind : Methods \cup {"nodeop_free"}] \cup {None}
     /\ {s.id : s \in Now.subs} \subseteq Ids
     /\ view.rows \subseteq Tiers
     /\ \A i \in DOMAIN flight :
          IsRequest(flight[i], {"status", "tiers", "create", "verify", "payments", "cancel",
                                "rows", "save", "remove"})

\* A user who is told "You're all set!" has a subscription with a payment that succeeded, or
\* a free one: in every order of answers, failures and changes of the tiers.
PaidMeansPaid ==
  Now.paid => \E id \in DOMAIN server.subs : server.subs[id].succeeded > 0

\* A subscription that its user had cancelled is not active again, unless Stripe delivered
\* the event of its payment once more.
CancelledStays ==
  \A id \in past.cancelled : server.subs[id].status = "active" => id \in past.redelivered
=============================================================================
