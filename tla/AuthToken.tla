------------------------------ MODULE AuthToken ------------------------------
(* The cached authentication token (internal/engine/engine.go, AuthToken): an *)
(* atomic pointer to a token and its expiry, replaced under authMu when the   *)
(* expiry comes within Margin.  The time is read once, before the lock.       *)
(*                                                                            *)
(* A token is its expiry: its text is the deadline, the account and the key,  *)
(* signed.                                                                    *)
EXTENDS Integers

CONSTANTS Askers,   \* the calls that need a token
          Lifetime, \* cfg.AuthTokenLifetime
          Margin,   \* authTokenRefreshMargin
          LastTime  \* bound: the clock stops there

ASSUME TokenAssumption == Lifetime \in Nat /\ Margin \in Nat /\ Lifetime > Margin /\ LastTime \in Nat

VARIABLES clock,
          enabled, \* the default key's signer is there and not closed
          auth,    \* e.auth: the expiry of the cached token, 0 while it is nil
          asking,  \* asker -> "no", "queue" (for authMu), "yes" or "failed"
          now,     \* asker -> the time it read
          token    \* asker -> the expiry of the token it was given
tokenVars == <<clock, enabled, auth, asking, now, token>>

TokenInit == /\ clock = 1 /\ enabled \in BOOLEAN /\ auth = 0
             /\ asking = [a \in Askers |-> "no"] /\ now = [a \in Askers |-> 0]
             /\ token = [a \in Askers |-> 0]
-----------------------------------------------------------------------------
Fresh(t) == auth # 0 /\ auth - t > Margin
Give(a, expiry) == /\ asking' = [asking EXCEPT ![a] = "yes"]
                   /\ token' = [token EXCEPT ![a] = expiry]

Tick == /\ clock < LastTime /\ clock' = clock + 1
        /\ UNCHANGED <<enabled, auth, asking, now, token>>

AskToken(a) ==
  /\ asking[a] # "queue" /\ now' = [now EXCEPT ![a] = clock]
  /\ IF Fresh(clock) THEN Give(a, auth)
     ELSE asking' = [asking EXCEPT ![a] = "queue"] /\ UNCHANGED token
  /\ UNCHANGED <<clock, enabled, auth>>

SignBlind(a) ==
  /\ asking[a] = "queue"
  /\ IF enabled THEN auth' = now[a] + Lifetime /\ Give(a, now[a] + Lifetime)
     ELSE asking' = [asking EXCEPT ![a] = "failed"] /\ UNCHANGED <<auth, token>>
  /\ UNCHANGED <<clock, enabled, now>>
\* Under authMu: looks again, with the time it read before, and signs.
Sign(a) ==
  /\ asking[a] = "queue"
  /\ CASE Fresh(now[a]) -> Give(a, auth) /\ UNCHANGED auth
       [] ~Fresh(now[a]) /\ ~enabled ->
            asking' = [asking EXCEPT ![a] = "failed"] /\ UNCHANGED <<auth, token>>
       [] ~Fresh(now[a]) /\ enabled -> auth' = now[a] + Lifetime /\ Give(a, now[a] + Lifetime)
  /\ UNCHANGED <<clock, enabled, now>>

\* Client.Close zeroes the keys.
CloseKeys == enabled' = FALSE /\ UNCHANGED <<clock, auth, asking, now, token>>

TokenNext == Tick \/ CloseKeys \/ \E a \in Askers : AskToken(a) \/ Sign(a)
TokenSpec == TokenInit /\ [][TokenNext]_tokenVars
-----------------------------------------------------------------------------
TokenTypeOK == /\ clock \in Nat \ {0} /\ enabled \in BOOLEAN /\ auth \in Nat
               /\ asking \in [Askers -> {"no", "queue", "yes", "failed"}]
               /\ now \in [Askers -> Nat] /\ token \in [Askers -> Nat]

(* A caller that waited for the lock judges by an old clock, but the cached   *)
(* token is only ever replaced by one that lives longer.                      *)
TokenNeverShortened == [][auth' > auth]_auth

(* engine.go:270-271 "regenerating it when it is within authTokenRefreshMargin*)
(* of its expiry": the token of a call that began at most Margin ago is still *)
(* alive, however long the call waited for the lock.                          *)
TokenLasts == \A a \in Askers :
  asking[a] = "yes" /\ clock <= now[a] + Margin => token[a] > clock
=============================================================================
