-------------------------------- MODULE Webhooks --------------------------------
(***************************************************************************)
(* Outbound webhooks (dashboard_api/webhooks.py, routers/config.py): every *)
(* event is delivered by a thread of its own to the webhooks that were not *)
(* paused when it was raised, one after the other, with up to three        *)
(* attempts each; the outcome is written to webhooks.status.               *)
(*                                                                         *)
(* A definition whose comment begins with (slip) is a mistake the code     *)
(* could have made in the definition that follows it.                      *)
(***************************************************************************)
EXTENDS Integers, FiniteSets

CONSTANTS Hooks,         \* webhooks subscribed to the event
          NoHook,        \* no delivery in hand
          Deliveries,    \* _deliver threads
          MaxAttempts,   \* _MAX_ATTEMPTS
          MaxSwitches    \* bound on pauses, resumptions and deletions

ASSUME WebhookAssumption ==
  /\ NoHook \notin Hooks
  /\ MaxAttempts \in Nat \ {0}
  /\ MaxSwitches \in Nat

VARIABLES
  hook,       \* webhooks.status
  delivery,   \* _deliver: the subscribers left, and its local variables
  paused,     \* webhooks whose operator last asked for a pause
  inFlight,   \* of these, the ones a delivery or a test had read before the pause, or
              \* a test was sent to since
  switches

hookVars == <<hook, delivery, paused, inFlight, switches>>

HookTypeOK ==
  /\ hook \in [Hooks -> {"active", "failing", "paused", "deleted"}]
  /\ delivery \in [Deliveries -> [pc       : {"none", "picking", "posting", "saving", "over"},
                                  left     : SUBSET Hooks,
                                  to       : Hooks \cup {NoHook},
                                  attempts : 0 .. MaxAttempts,
                                  ok       : BOOLEAN]]
  /\ paused \in SUBSET Hooks
  /\ inFlight \in SUBSET Hooks
  /\ switches \in 0 .. MaxSwitches

HookInit ==
  /\ hook = [w \in Hooks |-> "active"]
  /\ delivery = [d \in Deliveries |-> [pc |-> "none", left |-> {}, to |-> NoHook,
                                       attempts |-> 0, ok |-> FALSE]]
  /\ paused = {}
  /\ inFlight = {}
  /\ switches = 0

-----------------------------------------------------------------------------
(* The operator *)

\* A delivery will still write the status of w.
Pending(w) == \E d \in Deliveries : w \in delivery[d].left \/ w = delivery[d].to

Switch(w) == /\ hook[w] # "deleted"
             /\ switches < MaxSwitches
             /\ switches' = switches + 1

\* PATCH /webhooks/{id} with status "paused".
Pause(w) ==
  /\ Switch(w)
  /\ hook' = [hook EXCEPT ![w] = "paused"]
  /\ paused' = paused \cup {w}
  /\ inFlight' = IF Pending(w) THEN inFlight \cup {w} ELSE inFlight \ {w}
  /\ UNCHANGED delivery

\* PATCH with status "active".
Resume(w) ==
  /\ Switch(w)
  /\ hook' = [hook EXCEPT ![w] = "active"]
  /\ paused' = paused \ {w}
  /\ inFlight' = inFlight \ {w}
  /\ UNCHANGED delivery

\* DELETE /webhooks/{id}: later status writes find no row.
Delete(w) ==
  /\ Switch(w)
  /\ hook' = [hook EXCEPT ![w] = "deleted"]
  /\ paused' = paused \ {w}
  /\ inFlight' = inFlight \ {w}
  /\ UNCHANGED delivery

-----------------------------------------------------------------------------
(* dispatch and _deliver *)

\* (slip) Every webhook that exists is a subscriber.
EveryHook == {w \in Hooks : hook[w] # "deleted"}

\* _subscribers: read once, when the event is raised.
Subscribers == {w \in Hooks : hook[w] \notin {"paused", "deleted"}}

Dispatch(d) ==
  /\ delivery[d].pc = "none"
  /\ Subscribers # {}
  /\ delivery' = [delivery EXCEPT ![d].pc = "picking", ![d].left = Subscribers]
  /\ UNCHANGED <<hook, paused, inFlight, switches>>

\* POST /webhooks/{id}/test delivers to one webhook, paused or not.
Test(d, w) ==
  /\ delivery[d].pc = "none"
  /\ hook[w] # "deleted"
  /\ delivery' = [delivery EXCEPT ![d].pc = "picking", ![d].left = {w}]
  /\ inFlight' = IF w \in paused THEN inFlight \cup {w} ELSE inFlight
  /\ UNCHANGED <<hook, paused, switches>>

\* for sub in subs.
PickNext(d, w) ==
  /\ delivery[d].pc = "picking"
  /\ w \in delivery[d].left
  /\ delivery' = [delivery EXCEPT ![d] = [pc |-> "posting", left |-> @.left \ {w}, to |-> w,
                                          attempts |-> 0, ok |-> FALSE]]
  /\ UNCHANGED <<hook, paused, inFlight, switches>>

\* (slip) One attempt more than _MAX_ATTEMPTS.
OneMore(n) == n > MaxAttempts

\* range(1, _MAX_ATTEMPTS + 1).
LastAttempt(n) == n = MaxAttempts

\* An attempt of _post_with_retry: anything but a good answer is tried again, an
\* answer lost after the subscriber took the event included.
Attempt(d, answered) ==
  /\ delivery[d].pc = "posting"
  /\ LET n == delivery[d].attempts + 1 IN
       delivery' = [delivery EXCEPT
         ![d].attempts = n,
         ![d].ok = answered,
         ![d].pc = IF answered \/ LastAttempt(n) THEN "saving" ELSE "posting"]
  /\ UNCHANGED <<hook, paused, inFlight, switches>>

\* A target the SSRF guard refuses is not tried again.
Blocked(d) ==
  /\ delivery[d].pc = "posting"
  /\ delivery' = [delivery EXCEPT ![d].pc = "saving", ![d].ok = FALSE]
  /\ UNCHANGED <<hook, paused, inFlight, switches>>

\* UPDATE webhooks SET status, whatever the status is by now.
SaveOutcome(d) ==
  /\ delivery[d].pc = "saving"
  /\ hook' = IF hook[delivery[d].to] = "deleted" THEN hook
             ELSE [hook EXCEPT ![delivery[d].to] = IF delivery[d].ok THEN "active" ELSE "failing"]
  /\ delivery' = [delivery EXCEPT
       ![d].to = NoHook,
       ![d].pc = IF delivery[d].left = {} THEN "over" ELSE "picking"]
  /\ UNCHANGED <<paused, inFlight, switches>>

\* The process ends, or an error the loop does not catch: the thread dies with the rest.
DeliveryDies(d) ==
  /\ delivery[d].pc \in {"picking", "posting", "saving"}
  /\ delivery' = [delivery EXCEPT ![d].pc = "over", ![d].left = {}, ![d].to = NoHook]
  /\ UNCHANGED <<hook, paused, inFlight, switches>>

HookNext ==
  \/ \E w \in Hooks : Pause(w) \/ Resume(w) \/ Delete(w)
  \/ \E d \in Deliveries :
       \/ Dispatch(d)
       \/ \E w \in Hooks : Test(d, w) \/ PickNext(d, w)
       \/ \E answered \in BOOLEAN : Attempt(d, answered)
       \/ Blocked(d) \/ SaveOutcome(d) \/ DeliveryDies(d)

HookSpec == HookInit /\ [][HookNext]_hookVars

-----------------------------------------------------------------------------
(* Properties *)

\* A webhook its operator has paused stays paused, and receives no event raised after
\* the pause, except where a delivery had read it before the pause or a test was sent
\* to it: the status written after such a delivery takes the pause back.
PauseHolds ==
  \A w \in paused \ inFlight :
    /\ hook[w] = "paused"
    /\ \A d \in Deliveries : w \notin delivery[d].left \cup {delivery[d].to}
=============================================================================
