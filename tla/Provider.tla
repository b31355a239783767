------------------------------- MODULE Provider -------------------------------
(***************************************************************************)
(* The payment provider (Stripe, or the fake gateway of the tests) and the *)
(* guest's browser, as the code under src/ uses them.  A charge is the     *)
(* provider's PaymentIntent of one booking.  The provider sends an event   *)
(* for each change of a charge; an event may be delivered late, out of     *)
(* order and any number of times, so events are a set that delivery does   *)
(* not empty.  An event made by the reconciliation worker from a lookup is *)
(* handled once, by the worker that made it.                               *)
(***************************************************************************)

CONSTANTS
    Bookings,    \* booking ids; a booking has at most one charge
    Outcomes,    \* what may become of a charge in this model
    Subscribed   \* the event types the provider is configured to send

VARIABLES
    charge,      \* the provider's state of each booking's charge
    checkout,    \* bookings whose guest holds the checkout session
    events       \* events on their way to ProcessWebhook

providerVars == <<charge, checkout, events>>

ChargeStates == {"none", "open", "declined", "captured", "canceled", "refunded"}
EventTypes == {"payment.created", "payment.succeeded",
               "payment.failed", "payment.canceled"}
Event == [of : Bookings, type : EventTypes, source : {"provider", "reconciliation"}]

ProviderTypeOK ==
    /\ charge \in [Bookings -> ChargeStates]
    /\ checkout \subseteq Bookings
    /\ events \subseteq Event

ProviderInit ==
    /\ charge = [b \in Bookings |-> "none"]
    /\ checkout = {}
    /\ events = {}

Notify(b, type) ==
    events' = events \cup
        {e \in Event : /\ e.of = b /\ e.type = type /\ e.source = "provider"
                       /\ type \in Subscribed}

-----------------------------------------------------------------------------

\* Gateway.CreatePayment: the idempotency key makes a repeated call return
\* the charge of the first one.
CreatePayment(b) ==
    \/ /\ charge[b] = "none"
       /\ charge' = [charge EXCEPT ![b] = "open"]
       /\ Notify(b, "payment.created")
    \/ /\ charge[b] # "none"
       /\ UNCHANGED <<charge, events>>

\* The guest pays, or tries to, with the session the API handed out.
Pay(b) ==
    /\ "captured" \in Outcomes
    /\ b \in checkout
    /\ charge[b] \in {"open", "declined"}
    /\ charge' = [charge EXCEPT ![b] = "captured"]
    /\ Notify(b, "payment.succeeded")
    /\ UNCHANGED checkout

Decline(b) ==
    /\ "declined" \in Outcomes
    /\ b \in checkout
    /\ charge[b] = "open"
    /\ charge' = [charge EXCEPT ![b] = "declined"]
    /\ Notify(b, "payment.failed")
    /\ UNCHANGED checkout

\* The provider's side gives the charge up.
Cancel(b) ==
    /\ "canceled" \in Outcomes
    /\ charge[b] \in {"open", "declined"}
    /\ charge' = [charge EXCEPT ![b] = "canceled"]
    /\ Notify(b, "payment.canceled")
    /\ UNCHANGED checkout

\* Gateway.RefundPayment: accepted for a captured charge; the idempotency
\* key makes a repeated call return the first refund.
Refund(b) ==
    /\ charge[b] \in {"captured", "refunded"}
    /\ charge' = [charge EXCEPT ![b] = "refunded"]
    /\ UNCHANGED <<checkout, events>>

\* Mutant of LookupEvents: a charge that is still open is taken as paid.
LookupOpenAsPaid(b) ==
    {e \in Event : /\ e.of = b /\ e.source = "reconciliation"
                   /\ e.type = "payment.succeeded"}

\* Gateway.LookupPayment, as the event reconciliationEvent makes of it: none
\* while the charge is open, an error never.
LookupEvents(b) ==
    {e \in Event : /\ e.of = b /\ e.source = "reconciliation"
                   /\ \/ charge[b] \in {"captured", "refunded"} /\ e.type = "payment.succeeded"
                      \/ charge[b] = "declined" /\ e.type = "payment.failed"
                      \/ charge[b] = "canceled" /\ e.type = "payment.canceled"}

=============================================================================
