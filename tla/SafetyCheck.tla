---------------------------- MODULE SafetyCheck ----------------------------
(***************************************************************************)
(* The check of texts by WeChat, app/common/content_safety.py: a token     *)
(* that all checks share through a cache, and a loop that asks for another *)
(* one when WeChat says that the token is no good.                         *)
(*                                                                         *)
(* POST /chat/jobs checks the text on the event loop, and runners check    *)
(* replies in threads; so checks overlap, and a step here is what a thread *)
(* does without another one in between: an access of the cache, or a call  *)
(* of WeChat.  A text that cannot be checked is let through.               *)
(***************************************************************************)
EXTENDS Naturals, FiniteSets

CONSTANTS
    Checks,         \* checks that may overlap
    Tokens,         \* access tokens, used again when nobody has them (bound)
    NoToken,
    MaxRetries      \* _MAX_RETRIES

ASSUME SafetyCheckAssumption ==
    /\ NoToken \notin Tokens
    /\ MaxRetries \in Nat

VARIABLES
    configured, \* WECHAT_APPID and WECHAT_APPSECRET are there
    cache,      \* the entry of _cache
    good,       \* WeChat: the tokens it accepts
    pc,         \* where a check is
    token,      \* the token it holds
    attempt,    \* the round of its loop
    risky,      \* whether WeChat would reject the text
    verdict,    \* True is allowed, False rejected
    trouble,    \* history: WeChat failed the check, or was not reached
    churn       \* history: tokens that others spoiled during the check

vars == <<configured, cache, good, pc, token, attempt, risky, verdict, trouble, churn>>

TypeOK ==
    /\ configured \in BOOLEAN
    /\ cache \in Tokens \cup {NoToken}
    /\ good \subseteq Tokens
    /\ pc \in [Checks -> {"idle", "cached", "fetch", "put", "check", "clear"}]
    /\ token \in [Checks -> Tokens \cup {NoToken}]
    /\ attempt \in [Checks -> 0 .. MaxRetries]
    /\ risky \in [Checks -> BOOLEAN]
    /\ verdict \in [Checks -> {"none", "allowed", "rejected"}]
    /\ trouble \in [Checks -> BOOLEAN]
    /\ churn \in [Checks -> 0 .. MaxRetries]

Init ==
    /\ configured \in BOOLEAN
    /\ cache = NoToken
    /\ good = {}
    /\ pc = [c \in Checks |-> "idle"]
    /\ token = [c \in Checks |-> NoToken]
    /\ attempt = [c \in Checks |-> 0]
    /\ risky = [c \in Checks |-> FALSE]
    /\ verdict = [c \in Checks |-> "none"]
    /\ trouble = [c \in Checks |-> FALSE]
    /\ churn = [c \in Checks |-> 0]

\* check_text_safety returns.
Returns(c, v) ==
    /\ pc' = [pc EXCEPT ![c] = "idle"]
    /\ token' = [token EXCEPT ![c] = NoToken]
    /\ verdict' = [verdict EXCEPT ![c] = v]

\* A token is spoiled during the checks in C: one that was good is not any more,
\* or one that is not good is put into the cache.  As many times as a check may
\* try again is all that has to be counted.
Churned(C) ==
    churn' = [d \in Checks |-> IF d \in C /\ churn[d] < MaxRetries THEN churn[d] + 1
                               ELSE churn[d]]

-----------------------------------------------------------------------------
(***************************************************************************)
(* check_text_safety.                                                      *)
(***************************************************************************)
Begin(c, r) ==
    /\ pc[c] = "idle"
    /\ risky' = [risky EXCEPT ![c] = r]
    /\ attempt' = [attempt EXCEPT ![c] = 0]
    /\ trouble' = [trouble EXCEPT ![c] = FALSE]
    /\ churn' = [churn EXCEPT ![c] = 0]
    /\ IF configured
       THEN /\ pc' = [pc EXCEPT ![c] = "cached"]
            /\ verdict' = [verdict EXCEPT ![c] = "none"]
            /\ UNCHANGED token
       ELSE Returns(c, "allowed")
    /\ UNCHANGED <<configured, cache, good>>

\* _access_token: the cached token, or a new one.
ReadCache(c) ==
    /\ pc[c] = "cached"
    /\ pc' = [pc EXCEPT ![c] = IF cache = NoToken THEN "fetch" ELSE "check"]
    /\ token' = [token EXCEPT ![c] = cache]
    /\ UNCHANGED <<configured, cache, good, attempt, risky, verdict, trouble, churn>>

\* WeChat gives a token; the one before is no good any more, at once or later.
FetchToken(c) ==
    /\ pc[c] = "fetch"
    /\ \E t \in Tokens \ ({cache} \cup {token[d] : d \in Checks}) :
        /\ good' \in {{t}, good \cup {t}}
        /\ token' = [token EXCEPT ![c] = t]
    /\ pc' = [pc EXCEPT ![c] = "put"]
    /\ Churned(IF good \subseteq good' THEN {} ELSE Checks \ {c})
    /\ UNCHANGED <<configured, cache, attempt, risky, verdict, trouble>>

\* No token, no check.
FetchFails(c) ==
    /\ pc[c] = "fetch"
    /\ Returns(c, "allowed")
    /\ trouble' = [trouble EXCEPT ![c] = TRUE]
    /\ UNCHANGED <<configured, cache, good, attempt, risky, churn>>

\* It may be no good by now.
PutCache(c) ==
    /\ pc[c] = "put"
    /\ cache' = token[c]
    /\ pc' = [pc EXCEPT ![c] = "check"]
    /\ Churned(IF token[c] \in good THEN {} ELSE Checks \ {c})
    /\ UNCHANGED <<configured, good, token, attempt, risky, verdict, trouble>>

\* msg_sec_check, with a token that WeChat accepts.
Judged(c) ==
    /\ pc[c] = "check" /\ token[c] \in good
    /\ Returns(c, IF risky[c] THEN "rejected" ELSE "allowed")
    /\ UNCHANGED <<configured, cache, good, attempt, risky, trouble, churn>>

\* Seeded fault: one attempt too many.
OnceMore(c) == attempt[c] <= MaxRetries

MayRetry(c) == attempt[c] < MaxRetries

\* ERRCODE_NEED_TOKEN: the next attempt takes another token, the last one
\* lets the text through.
TokenRefused(c) ==
    /\ pc[c] = "check" /\ token[c] \notin good
    /\ IF MayRetry(c)
       THEN /\ pc' = [pc EXCEPT ![c] = "clear"]
            /\ attempt' = [attempt EXCEPT ![c] = @ + 1]
            /\ UNCHANGED <<token, verdict>>
       ELSE Returns(c, "allowed") /\ UNCHANGED attempt
    /\ UNCHANGED <<configured, cache, good, risky, trouble, churn>>

\* Seeded fault: the cached token stays.
LeaveCache(c) ==
    /\ pc[c] = "clear"
    /\ pc' = [pc EXCEPT ![c] = "cached"]
    /\ UNCHANGED <<configured, cache, good, token, attempt, risky, verdict, trouble, churn>>

\* _clear_token drops whatever token is cached now.
ClearToken(c) ==
    /\ pc[c] = "clear"
    /\ cache' = NoToken
    /\ pc' = [pc EXCEPT ![c] = "cached"]
    /\ UNCHANGED <<configured, good, token, attempt, risky, verdict, trouble, churn>>

\* _ERRCODE_RETRYABLE: the same token again.
Busy(c) ==
    /\ pc[c] = "check"
    /\ trouble' = [trouble EXCEPT ![c] = TRUE]
    /\ IF MayRetry(c)
       THEN /\ attempt' = [attempt EXCEPT ![c] = @ + 1]
            /\ UNCHANGED <<pc, token, verdict>>
       ELSE Returns(c, "allowed") /\ UNCHANGED attempt
    /\ UNCHANGED <<configured, cache, good, risky, churn>>

\* Any other answer, or none: let through.
CheckFails(c) ==
    /\ pc[c] = "check"
    /\ Returns(c, "allowed")
    /\ trouble' = [trouble EXCEPT ![c] = TRUE]
    /\ UNCHANGED <<configured, cache, good, attempt, risky, churn>>

(***************************************************************************)
(* WeChat.                                                                 *)
(***************************************************************************)
\* A token lives for two hours; other programs may fetch one as well.
TokenExpires(t) ==
    /\ t \in good
    /\ good' = good \ {t}
    /\ Churned(Checks)
    /\ UNCHANGED <<configured, cache, pc, token, attempt, risky, verdict, trouble>>

Step(c) ==
    \/ ReadCache(c) \/ FetchToken(c) \/ FetchFails(c) \/ PutCache(c)
    \/ Judged(c) \/ TokenRefused(c) \/ ClearToken(c) \/ Busy(c) \/ CheckFails(c)

Next ==
    \/ \E c \in Checks : Step(c) \/ \E r \in BOOLEAN : Begin(c, r)
    \/ \E t \in Tokens : TokenExpires(t)

Spec == Init /\ [][Next]_vars

-----------------------------------------------------------------------------
(***************************************************************************)
(* Property.                                                               *)
(***************************************************************************)
\* Risky text gets through only when the check could not be made: WeChat is
\* not configured, failed or was not reached, or others spoiled tokens under the
\* check as many times as it tries again.  A token that was stale when the
\* check began is never enough, and neither is one refresh by another check.
RiskPassesOnlyUnchecked ==
    \A c \in Checks :
        configured /\ risky[c] /\ verdict[c] = "allowed" =>
            trouble[c] \/ churn[c] >= MaxRetries
=============================================================================
