------------------------------ MODULE OperatorDesk ------------------------------
(***************************************************************************)
(* The operator's desk: the command handlers of telegram/commands.py, the   *)
(* token buckets of security/rate_limiter.py that may refuse them, the      *)
(* confirmations a destructive command waits for, and the limiter of the    *)
(* alerts that go out (telegram/alerts.py).                                 *)
(*                                                                         *)
(* Updates are handled one at a time, as the bot library does it; what a    *)
(* handler awaits lets the clock run and alerts go out.  The application    *)
(* answers one chat (telegram/bot.py), so confirmations are kept per user.  *)
(*                                                                         *)
(* Tokens are counted in units of 1/Window of a token: a command costs      *)
(* Window, a unit of time brings Limit and a bucket holds Limit * Window.   *)
(***************************************************************************)
EXTENDS Integers, Sequences, FiniteSets

CONSTANTS
    Users,              \* operators in the configured chat
    Commands,           \* the limited commands they use
    Limit,              \* RATE_LIMITS: commands of an action per window
    Window,             \* WINDOW_SIZE_SEC
    CleanupInterval,    \* RateLimiter._cleanup_interval
    IdleFor,            \* age at which _cleanup_old_buckets drops a bucket
    Ttl,                \* _CONFIRMATION_TTL_SECONDS
    MaxMessages,        \* TelegramRateLimiter.max_messages
    AlertWindow,        \* TelegramRateLimiter.window_seconds
    Controllers,        \* bot_data["nuclear_controller"]: "none", "main", "tests"
    None,
    MaxTime,            \* bound on the clock
    MaxCalls            \* bound on commands and alerts together

Destructive == {"nuke", "kill", "closeall"}

ASSUME DeskAssumption ==
    /\ Commands \subseteq Destructive \union {"pause", "resume", "status", "positions"}
    /\ None \notin Destructive
    /\ Limit \in [{"NUKE", "PAUSE", "RESUME", "STATUS", "POSITIONS"} -> Nat \ {0}]
    /\ {Window, AlertWindow, MaxMessages} \subseteq Nat \ {0}
    /\ {CleanupInterval, Ttl, MaxTime, MaxCalls} \subseteq Nat
    /\ IdleFor \in Nat /\ IdleFor >= Window
    /\ Controllers \subseteq {"none", "main", "tests"}

VARIABLES
    now,            \* time.time(), and time.monotonic() of the alerts
    buckets,        \* RateLimiter._buckets: <<user, action>> to [tokens, last]
    pending,        \* _confirmation_state: user to [action, expires_at]
    closing,        \* the confirmed action whose handler is under way
    nuked,          \* per user, the calls of force_nuclear
    _timestamps,    \* TelegramRateLimiter._timestamps
    calls,          \* commands and alerts so far
    accepted,       \* observer: times at which a bucket allowed a command
    refused,        \* observer: [key, at] of the commands it refused
    last,           \* observer: what each user last did about a confirmation
    sent,           \* observer: times of the normal alerts sent
    muted           \* observer: [priority, at] of the suppressed alerts

desk == <<buckets, pending, closing, nuked>>
alerts == <<_timestamps, sent, muted>>
observed == <<accepted, refused, last>>
vars == <<now, desk, alerts, observed, calls>>

(* The action whose bucket a command draws on: /kill and /closeall share    *)
(* that of /nuke.                                                           *)
RateLimitAction(c) ==
    CASE c \in Destructive -> "NUKE"
      [] c = "pause" -> "PAUSE"
      [] c = "resume" -> "RESUME"
      [] c = "status" -> "STATUS"
      [] c = "positions" -> "POSITIONS"
Keys == Users \X {RateLimitAction(c) : c \in Commands}

Init ==
    /\ now = 0 /\ calls = 0
    /\ buckets = [k \in {} |-> None]
    /\ pending = [u \in {} |-> None]
    /\ closing = None
    /\ nuked = [u \in Users |-> 0]
    /\ _timestamps = <<>> /\ sent = <<>> /\ muted = {}
    /\ accepted = [k \in Keys |-> <<>>] /\ refused = {}
    /\ last = [u \in Users |-> [what |-> "nothing", action |-> None, at |-> 0]]

Least(a, b) == IF a < b THEN a ELSE b

---------------------------------------------------------------------------
(* The token bucket.                                                        *)

Full(k) == Limit[k[2]] * Window

(* TokenBucket.refill                                                       *)
refill(k, b) == [tokens |-> Least(Full(k), b.tokens + (now - b.last) * Limit[k[2]]),
                 last |-> now]

MutDropsAll == IF now > CleanupInterval THEN {} ELSE DOMAIN buckets

(* _cleanup_old_buckets.  _last_cleanup is never written after __init__, so *)
(* from CleanupInterval on every check cleans up.                           *)
Kept == IF now > CleanupInterval
        THEN {k \in DOMAIN buckets : buckets[k].last >= now - IdleFor}
        ELSE DOMAIN buckets

(* The bucket check_limit hands to try_consume, refilled.                   *)
Bucket(k) == IF k \in Kept THEN refill(k, buckets[k]) ELSE [tokens |-> Full(k), last |-> now]

(* check_limit: `allowed` is its answer for key k.                          *)
check_limit(k, allowed) ==
    LET b == Bucket(k)
    IN  /\ allowed = (b.tokens >= Window)
        /\ buckets' = [x \in Kept \union {k} |->
                        IF x # k THEN buckets[x]
                        ELSE [b EXCEPT !.tokens = IF allowed THEN @ - Window ELSE @]]
        /\ IF allowed
           THEN accepted' = [accepted EXCEPT ![k] = Append(@, now)] /\ UNCHANGED refused
           ELSE refused' = refused \union {[key |-> k, at |-> now]} /\ UNCHANGED accepted

---------------------------------------------------------------------------
(* The handlers.                                                            *)

Handles == closing = None /\ calls < MaxCalls /\ calls' = calls + 1

Refused(u, c) ==
    /\ Handles
    /\ check_limit(<<u, RateLimitAction(c)>>, FALSE)
    /\ UNCHANGED <<now, pending, closing, nuked, alerts, last>>

(* /nuke, /kill and /closeall: a new request replaces the one before it.    *)
_register_confirmation(u, c) ==
    /\ pending' = [x \in DOMAIN pending \union {u} |->
                    IF x = u THEN [action |-> c, expires_at |-> now + Ttl] ELSE pending[x]]
    /\ last' = [last EXCEPT ![u] = [what |-> "asked", action |-> c, at |-> now]]

cmd_nuke(u, c) ==
    /\ Handles /\ c \in Destructive
    /\ check_limit(<<u, "NUKE">>, TRUE)
    /\ _register_confirmation(u, c)
    /\ UNCHANGED <<now, closing, nuked, alerts>>

(* /pause, /resume, /status and /positions: what they write is in the       *)
(* guardian's module, the limit is taken here.                              *)
Allowed(u, c) ==
    /\ Handles /\ c \notin Destructive
    /\ check_limit(<<u, RateLimitAction(c)>>, TRUE)
    /\ UNCHANGED <<now, pending, closing, nuked, alerts, last>>

Without(f, x) == [y \in DOMAIN f \ {x} |-> f[y]]

MutPeeks(u, taken) ==
    /\ UNCHANGED pending
    /\ taken = IF u \in DOMAIN pending /\ pending[u].expires_at >= now
               THEN pending[u].action ELSE None

(* _consume_confirmation removes the request, late or not; `taken` is the   *)
(* request it returns.                                                      *)
_consume_confirmation(u, taken) ==
    /\ pending' = Without(pending, u)
    /\ taken = IF u \in DOMAIN pending /\ pending[u].expires_at >= now
               THEN pending[u].action ELSE None

Confirming(u) ==
    /\ Handles
    /\ last' = [last EXCEPT ![u] = [what |-> "confirmed", action |-> None, at |-> now]]
    /\ UNCHANGED <<now, buckets, nuked, alerts, accepted, refused>>

(* /confirm with nothing to confirm, or with no controller in bot_data: the *)
(* request is consumed all the same.                                        *)
ConfirmsNothing(u) ==
    /\ Confirming(u)
    /\ \E taken \in Destructive \union {None} :
        _consume_confirmation(u, taken) /\ (taken = None \/ "none" \in Controllers)
    /\ UNCHANGED closing

(* /confirm of a request that is there: the handler goes on to the audit    *)
(* row and then to the controller.                                          *)
cmd_confirm(u) ==
    /\ Confirming(u)
    /\ \E taken \in Destructive :
        /\ _consume_confirmation(u, taken)
        /\ \E c \in Controllers \ {"none"} :
            closing' = [user |-> u, action |-> taken, controller |-> c]

(* With a pool in bot_data the audit row is awaited, written or failed      *)
(* (log_action never raises), and then force_nuclear is called; the         *)
(* controller of main.py has no such method, and the AttributeError ends    *)
(* the handler.                                                             *)
force_nuclear ==
    /\ closing # None
    /\ nuked' = IF closing.controller = "tests"
                THEN [nuked EXCEPT ![closing.user] = @ + 1] ELSE nuked
    /\ closing' = None
    /\ UNCHANGED <<now, buckets, pending, alerts, observed, calls>>

cmd_cancel(u) ==
    /\ Handles
    /\ pending' = Without(pending, u)
    /\ last' = [last EXCEPT ![u] = [what |-> "cancelled", action |-> None, at |-> now]]
    /\ UNCHANGED <<now, buckets, closing, nuked, alerts, accepted, refused>>

---------------------------------------------------------------------------
(* Alerts.  allow() pops the stamps older than the window from the left and *)
(* takes a normal alert while there is room; one of high priority passes    *)
(* unseen.                                                                  *)

Expired(t) == now - t > AlertWindow

(* The loop stops after d pops, and these stamps are left.                  *)
StopsAfter(d) ==
    /\ \A i \in 1..d : Expired(_timestamps[i])
    /\ d < Len(_timestamps) => ~Expired(_timestamps[d + 1])
Fresh(d) == SubSeq(_timestamps, d + 1, Len(_timestamps))

Sends(priority) ==
    /\ calls < MaxCalls /\ calls' = calls + 1
    /\ UNCHANGED <<now, desk, observed>>
    /\ IF priority = "high" THEN UNCHANGED alerts
       ELSE \E d \in 0..Len(_timestamps) :
        /\ StopsAfter(d)
        /\ IF Len(Fresh(d)) < MaxMessages
           THEN /\ _timestamps' = Append(Fresh(d), now) /\ sent' = Append(sent, now)
                /\ UNCHANGED muted
           ELSE /\ _timestamps' = Fresh(d)
                /\ muted' = muted \union {[priority |-> priority, at |-> now]}
                /\ UNCHANGED sent

Elapse ==
    /\ now < MaxTime /\ now' = now + 1
    /\ UNCHANGED <<desk, alerts, observed, calls>>

---------------------------------------------------------------------------
Command(u) ==
    \/ \E c \in Commands : Refused(u, c) \/ cmd_nuke(u, c) \/ Allowed(u, c)
    \/ ConfirmsNothing(u) \/ cmd_confirm(u) \/ cmd_cancel(u)

Next ==
    \/ \E u \in Users : Command(u)
    \/ force_nuclear
    \/ \E priority \in {"normal", "high"} : Sends(priority)
    \/ Elapse

Spec == Init /\ [][Next]_vars

---------------------------------------------------------------------------
(* A bucket never grants more than it holds plus what the time brought:     *)
(* between any two accepted commands of one user and action, both counted.  *)
(* A minute can thus see almost twice the limit, and never more.            *)
BucketBound ==
    \A k \in Keys : \A i, j \in DOMAIN accepted[k] :
        i <= j => (j - i + 1) * Window
                    <= Full(k) + (accepted[k][j] - accepted[k][i]) * Limit[k[2]]

(* Nobody is refused who has not used the full limit of the action within   *)
(* the window before.                                                       *)
RefusalEarned ==
    \A r \in refused :
        Cardinality({i \in DOMAIN accepted[r.key] :
                        accepted[r.key][i] \in (r.at - Window) .. r.at}) >= Limit[r.key[2]]

(* No window, its two ends included, has more than MaxMessages normal       *)
(* alerts, and one is suppressed only in a window that has them.            *)
AlertBound ==
    /\ \A i \in DOMAIN sent :
        i + MaxMessages \in DOMAIN sent => sent[i + MaxMessages] - sent[i] > AlertWindow
    /\ \A m \in muted :
        /\ m.priority = "normal"
        /\ Cardinality({i \in DOMAIN sent : sent[i] \in (m.at - AlertWindow) .. m.at})
            = MaxMessages

(* The limits bite neither late nor early: security/rate_limiter.py over    *)
(* refills, refusals, idle users and cleanups, and the alert limiter.       *)
LimitsHold == BucketBound /\ RefusalEarned /\ AlertBound

(* A handler goes on to close positions only for the last thing its user    *)
(* did: a request of that very action, not older than the TTL, neither      *)
(* cancelled, replaced nor confirmed since; and it closes once.             *)
ConfirmedOnce ==
    [][/\ (closing' # closing /\ closing' # None) =>
            LET l == last[closing'.user]
            IN  /\ l.what = "asked" /\ l.action = closing'.action
                /\ now <= l.at + Ttl
       /\ \A u \in Users : nuked'[u] # nuked[u] =>
            nuked'[u] = nuked[u] + 1 /\ closing # None /\ closing' = None]_vars
=============================================================================
