----------------------------- MODULE ToolPolicy -----------------------------
(***************************************************************************)
(* server_policy and the tools/call branch of server::application: the     *)
(* token bucket on a clock the program supplies, the access hook before it *)
(* and the schema, the handler and the output filter after it. Everything  *)
(* runs on the one application worker, so a call is a step.                *)
(*                                                                         *)
(* The bucket's double is a whole number of parts: a token is Token parts  *)
(* and a tick of the clock refills Rate parts, exactly.                    *)
(***************************************************************************)
EXTENDS Naturals

CONSTANTS Burst,    \* options_.tool_burst
          Rate,     \* options_.tool_requests_per_second, parts per tick
          Token,    \* parts in a token
          Horizon   \* the clock's last tick

ASSUME BurstAssumption == Burst \in Nat \ {0}
ASSUME RateAssumption == Rate \in Nat \ {0}
ASSUME TokenAssumption == Token \in Nat \ {0}
ASSUME HorizonAssumption == Horizon \in Nat

VARIABLES tokens,        \* tokens_, in parts
          last,          \* last_
          clockStarted,  \* clock_started_
          answer,        \* the reply to the last call
          latest,        \* history: the latest time the clock ever showed
          handled,       \* history: handler calls since the window began
          since          \* history: latest when the window began

bucket == <<tokens, last, clockStarted>>
window == <<latest, handled, since>>
vars == <<bucket, answer, window>>

Full == Burst * Token

Init == /\ tokens = Full
        /\ last = 0
        /\ clockStarted = FALSE
        /\ answer = "none"
        /\ latest = 0 /\ handled = 0 /\ since = 0

Lesser(m, n) == IF m <= n THEN m ELSE n
Greater(m, n) == IF m >= n THEN m ELSE n

\* Until the first call the clock's origin is unknown: that call only starts it.
\* A clock that stands still or goes back refills nothing and is not remembered.
Reference(now) == IF clockStarted THEN last ELSE now
Refilled(now) ==
    IF now > Reference(now)
    THEN Lesser(Full, tokens + (now - Reference(now)) * Rate)
    ELSE tokens

Granted(now) == Refilled(now) >= Token

\* Variant: a clock that went back is remembered, and its way forth refills again.
ConsumeForgets(now) ==
    /\ clockStarted' = TRUE
    /\ last' = now
    /\ tokens' = IF Granted(now) THEN Refilled(now) - Token ELSE Refilled(now)
    /\ latest' = IF clockStarted THEN Greater(now, latest) ELSE now
    /\ since' = IF clockStarted THEN since ELSE now

Consume(now) ==
    /\ clockStarted' = TRUE
    /\ last' = Greater(now, Reference(now))
    /\ tokens' = IF Granted(now) THEN Refilled(now) - Token ELSE Refilled(now)
    /\ latest' = IF clockStarted THEN Greater(now, latest) ELSE now
    /\ since' = IF clockStarted THEN since ELSE now

\* Bad parameters, an unknown tool, or a hook that denies or throws: no token goes.
Refuse ==
    /\ answer' \in {"invalid_params", "access_denied", "internal_error"}
    /\ UNCHANGED <<bucket, window>>

Limit(now) ==
    /\ ~Granted(now)
    /\ Consume(now)
    /\ answer' = "rate_limited"
    /\ UNCHANGED handled

\* The arguments do not match, or cannot be validated: the token is gone anyway.
Mismatch(now) ==
    /\ Granted(now)
    /\ Consume(now)
    /\ answer' \in {"result_error", "output_rejected", "internal_error"}
    /\ UNCHANGED handled

\* The handler returns, fails or throws, and the filter passes its text or not.
Handle(now) ==
    /\ Granted(now)
    /\ Consume(now)
    /\ answer' \in {"result", "result_error", "output_rejected", "internal_error"}
    /\ handled' = handled + 1

CallTool(now) == Limit(now) \/ Mismatch(now) \/ Handle(now)

\* An observer begins to count at any time after the clock has started.
BeginWindow ==
    /\ clockStarted
    /\ handled' = 0
    /\ since' = latest
    /\ UNCHANGED <<bucket, answer, latest>>

Next == \/ Refuse
        \/ \E now \in 0..Horizon : CallTool(now)
        \/ BeginWindow

Spec == Init /\ [][Next]_vars

-----------------------------------------------------------------------------
(* Properties *)

Answers == {"none", "invalid_params", "access_denied", "rate_limited", "internal_error",
            "result", "result_error", "output_rejected"}

(* The bucket is never overfull and never in debt. *)
TypeOK ==
    /\ tokens \in 0..Full
    /\ last \in 0..Horizon
    /\ clockStarted \in BOOLEAN
    /\ answer \in Answers
    /\ latest \in 0..Horizon
    /\ handled \in Nat
    /\ since \in 0..Horizon

(* In every window of the program's clock, whatever the clock does, handlers run at *)
(* most a burst and what the rate earns in the time that has passed.                *)
HandlerRateBounded == handled * Token <= Full + (latest - since) * Rate
=============================================================================
