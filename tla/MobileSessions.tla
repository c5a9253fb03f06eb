----------------------------- MODULE MobileSessions -----------------------------
(***************************************************************************)
(* The sessions of the mobile application: api/v1/store.py with its users  *)
(* in api/v1/security.py, api/v1/api.py and the page of mobile devices.    *)
(* A paired device holds a refresh token, which each use replaces, and     *)
(* access tokens that carry the identifier of the refresh token they were  *)
(* issued with.                                                            *)
(*                                                                         *)
(* Each function of the store is one transaction under its lock; a handler *)
(* verifies its access token in one and acts in another (handlers).  The   *)
(* network may lose, delay and repeat: any token ever issued may be        *)
(* presented at any time.                                                  *)
(*                                                                         *)
(* Abstracted: accounts, roles, scopes and passwords (a device identifier  *)
(* of another account is replaced by a new one), hashes and signatures.    *)
(* The unit of time is the second that separates last_used from revoked.   *)
(* Restore credentials end in Pair, and are otherwise not modelled.        *)
(***************************************************************************)
EXTENDS Integers, FiniteSets

CONSTANTS
    Device,
    Token,         \* the refresh tokens that can be issued: bounds their number
    Grace,         \* REFRESH_RECOVERY_GRACE
    Lifetime,      \* DEFAULT_REFRESH_LIFETIME
    AccessLife,    \* ACCESS_LIFETIME
    MaxHandlers,   \* bound on the handlers between verification and action
    MaxTime,       \* bound on the clock
    None           \* not revoked; no token

ASSUME SessionAssumption ==
    /\ Grace \in Nat /\ Lifetime \in Nat /\ AccessLife \in Nat /\ AccessLife <= Lifetime
    /\ MaxHandlers \in Nat /\ MaxTime \in Nat
    /\ None \notin Nat \cup Token

VARIABLES
    now,
    devices,    \* device -> "none", "active" or "revoked"
    tokens,     \* the rows of refresh_tokens
    push,       \* devices with a row in push_subscriptions
    handlers,   \* what verified handlers are about to do
    birth,      \* history: for each token issued, the token it replaced and the time
    ended       \* history: the tokens of sessions that were ended

sessionsVars == <<now, devices, tokens, push, handlers, birth, ended>>

Row == [device : Device, expires : Nat, revoked : Nat \cup {None}, replaced : BOOLEAN, used : Nat]
Handler == [op : {"logout"}, by : Token]
           \cup [op : {"subscribe", "unregister", "revoke"}, device : Device]

Issued == DOMAIN birth

SessionsTypeOK ==
    /\ now \in Nat
    /\ devices \in [Device -> {"none", "active", "revoked"}]
    /\ DOMAIN tokens \subseteq Issued /\ \A t \in DOMAIN tokens : tokens[t] \in Row
    /\ push \subseteq Device
    /\ handlers \subseteq Handler
    /\ Issued \subseteq Token
    /\ \A t \in Issued : birth[t].by \in Token \cup {None} /\ birth[t].at \in Nat
    /\ ended \subseteq Issued
    \* the rows refer to a row of devices (ON DELETE CASCADE)
    /\ \A t \in DOMAIN tokens : devices[tokens[t].device] # "none"

TokensOf(d) == {t \in DOMAIN tokens : tokens[t].device = d}

-----------------------------------------------------------------------------
(* Refresh tokens. *)

NewRow(d) == [device |-> d, expires |-> now + Lifetime, revoked |-> None, replaced |-> FALSE,
              used |-> now]

\* Issue a token of d that replaces the token "by"; the other rows become "rows".
IssueToken(d, by, rows) ==
    \E new \in Token \ Issued :
        /\ tokens' = [t \in DOMAIN rows \cup {new} |-> IF t = new THEN NewRow(d) ELSE rows[t]]
        /\ birth' = [t \in Issued \cup {new} |->
                        IF t = new THEN [by |-> by, at |-> now] ELSE birth[t]]

\* Mutant: a replaced token keeps its mark.
EndedKeepingMark(d) == [t \in DOMAIN tokens |->
                IF tokens[t].device = d THEN [tokens[t] EXCEPT !.revoked = now] ELSE tokens[t]]

\* The rows once the session of d has ended: revoked, and nothing to recover.
Ended(d) == [t \in DOMAIN tokens |->
                IF tokens[t].device = d THEN [tokens[t] EXCEPT !.revoked = now, !.replaced = FALSE]
                ELSE tokens[t]]

\* Mutant: the last moment of the grace period is not part of it.
RecoveryRetryEarly(t) ==
    /\ tokens[t].replaced /\ tokens[t].revoked # None
    /\ now - tokens[t].revoked < Grace
    /\ tokens[t].used = tokens[t].revoked

\* recovery_retry: the token has been replaced once, and not long ago.
RecoveryRetry(t) ==
    /\ tokens[t].replaced /\ tokens[t].revoked # None
    /\ now - tokens[t].revoked <= Grace
    /\ tokens[t].used = tokens[t].revoked

Accepted(t) ==
    /\ t \in DOMAIN tokens
    /\ devices[tokens[t].device] = "active" /\ tokens[t].expires > now
    /\ (tokens[t].revoked # None \/ tokens[t].replaced) => RecoveryRetry(t)

Later(a, b) == IF a < b THEN b ELSE a

\* Mutant: a recovery in the same moment leaves no trace.
UsedNow(t) ==
    IF RecoveryRetry(t) THEN [tokens[t] EXCEPT !.used = now]
    ELSE [tokens[t] EXCEPT !.revoked = now, !.replaced = TRUE, !.used = now]

\* The row of a token that has been used; a recovery does not extend the grace period.
Used(t) ==
    IF RecoveryRetry(t) THEN [tokens[t] EXCEPT !.used = Later(now, tokens[t].revoked + 1)]
    ELSE [tokens[t] EXCEPT !.revoked = now, !.replaced = TRUE, !.used = now]

\* rotate_refresh_token
Rotate(t) ==
    /\ Accepted(t)
    /\ IssueToken(tokens[t].device, t, [tokens EXCEPT ![t] = Used(t)])
    /\ UNCHANGED <<now, devices, push, handlers, ended>>

\* issue_refresh_token, after a login or with a restore credential: the former session
\* of the device ends.
Pair(d) ==
    /\ devices' = [devices EXCEPT ![d] = "active"]
    /\ IssueToken(d, None, Ended(d))
    /\ ended' = ended \cup TokensOf(d)
    /\ UNCHANGED <<now, push, handlers>>

\* active_token_session, for the access token issued with the refresh token t.
Session(t) ==
    /\ t \in DOMAIN tokens
    /\ tokens[t].revoked # None => tokens[t].replaced
    /\ devices[tokens[t].device] = "active" /\ tokens[t].expires > now
    /\ now < birth[t].at + AccessLife

-----------------------------------------------------------------------------
(* Handlers. *)

Handle(h) == Cardinality(handlers) < MaxHandlers /\ handlers' = handlers \cup {h}

\* A handler has verified its access token.
Verify(t) ==
    /\ Session(t)
    /\ \/ Handle([op |-> "logout", by |-> t])
       \/ Handle([op |-> "subscribe", device |-> tokens[t].device])
       \/ \E d \in Device : devices[d] # "none" /\ Handle([op |-> "unregister", device |-> d])
    /\ UNCHANGED <<now, devices, tokens, push, birth, ended>>

\* The administrator revokes a device on its page.
AskRevocation(d) ==
    /\ devices[d] # "none" /\ Handle([op |-> "unregister", device |-> d])
    /\ UNCHANGED <<now, devices, tokens, push, birth, ended>>

\* revoke_refresh_token ends the session of the device of the token, if it is still there.
Logout(h) ==
    /\ h \in handlers /\ h.op = "logout" /\ handlers' = handlers \ {h}
    /\ IF h.by \in DOMAIN tokens
         THEN /\ tokens' = Ended(tokens[h.by].device)
              /\ ended' = ended \cup TokensOf(tokens[h.by].device)
         ELSE UNCHANGED <<tokens, ended>>
    /\ UNCHANGED <<now, devices, push, birth>>

\* Mutant: it relies on the verification of the handler.
SubscribeVerified(h) ==
    /\ h \in handlers /\ h.op = "subscribe" /\ handlers' = handlers \ {h}
    /\ push' = push \cup {h.device}
    /\ UNCHANGED <<now, devices, tokens, birth, ended>>

\* save_push_subscription looks at the device again.
Subscribe(h) ==
    /\ h \in handlers /\ h.op = "subscribe" /\ handlers' = handlers \ {h}
    /\ push' = IF devices[h.device] = "active" THEN push \cup {h.device} ELSE push
    /\ UNCHANGED <<now, devices, tokens, birth, ended>>

\* push_dispatcher.unregister, before the device is revoked.
Unregister(h) ==
    /\ h \in handlers /\ h.op = "unregister"
    /\ handlers' = (handlers \ {h}) \cup {[op |-> "revoke", device |-> h.device]}
    /\ push' = push \ {h.device}
    /\ UNCHANGED <<now, devices, tokens, birth, ended>>

\* The rows once d is revoked: those already replaced keep their mark.
Withdrawn(d) == [t \in DOMAIN tokens |->
                    IF tokens[t].device = d /\ tokens[t].revoked = None
                      THEN [tokens[t] EXCEPT !.revoked = now] ELSE tokens[t]]

\* revoke_device
Revoke(h) ==
    /\ h \in handlers /\ h.op = "revoke" /\ handlers' = handlers \ {h}
    /\ devices' = [devices EXCEPT ![h.device] = IF @ = "active" THEN "revoked" ELSE @]
    /\ tokens' = Withdrawn(h.device)
    /\ push' = push \ {h.device}
    /\ ended' = ended \cup TokensOf(h.device)
    /\ UNCHANGED <<now, birth>>

\* delete_revoked_device, and delete_all_revoked_devices: with all their rows.
DeleteRevoked(ds) ==
    /\ ds # {} /\ \A d \in ds : devices[d] = "revoked"
    /\ devices' = [d \in Device |-> IF d \in ds THEN "none" ELSE devices[d]]
    /\ tokens' = [t \in {u \in DOMAIN tokens : tokens[u].device \notin ds} |-> tokens[t]]
    /\ push' = push \ ds
    /\ UNCHANGED <<now, handlers, birth, ended>>

Delete == (\E d \in Device : DeleteRevoked({d})) \/ DeleteRevoked({d \in Device : devices[d] = "revoked"})

Tick ==
    /\ now < MaxTime /\ now' = now + 1
    /\ UNCHANGED <<devices, tokens, push, handlers, birth, ended>>

-----------------------------------------------------------------------------
SessionsInit ==
    /\ now = 0
    /\ devices = [d \in Device |-> "none"]
    /\ tokens = [t \in {} |-> NewRow(CHOOSE d \in Device : TRUE)] /\ birth = [t \in {} |-> None]
    /\ push = {} /\ handlers = {} /\ ended = {}

SessionsNext ==
    \/ \E t \in DOMAIN tokens : Rotate(t) \/ Verify(t)
    \/ \E d \in Device : Pair(d) \/ AskRevocation(d)
    \/ \E h \in handlers : Logout(h) \/ Subscribe(h) \/ Unregister(h) \/ Revoke(h)
    \/ Delete \/ Tick

SessionsSpec == SessionsInit /\ [][SessionsNext]_sessionsVars

-----------------------------------------------------------------------------
(* Properties. *)

Replacements(t) == {r \in Issued : birth[r].by = t}

\* Once a session has ended - by logout, a new pairing, a revocation or the deletion of the
\* device - none of its tokens is accepted again, neither to refresh, within the grace
\* period or not, nor to act.
EndedStaysEnded == \A t \in ended : ~Accepted(t) /\ ~Session(t)

\* A client that lost the answer to a refresh can repeat it once, within the grace period
\* from the first use, unless the session has ended or the token expired.
RetryWorks ==
    \A t \in Issued \ ended :
        /\ now < birth[t].at + Lifetime
        /\ \A r \in Replacements(t) : Replacements(t) = {r} /\ now - birth[r].at <= Grace
        => Accepted(t)

\* And no more often, nor later.
RecoveredOnce ==
    \A t \in Issued :
        /\ \A r, s \in Replacements(t) : birth[r].at - birth[s].at <= Grace
        /\ \A r, s, u \in Replacements(t) : r = s \/ s = u \/ r = u

\* A refresh leaves the access tokens of the session valid until they expire, so that
\* requests in flight go on.
AccessKept == \A t \in Issued \ ended : now < birth[t].at + AccessLife => Session(t)

\* Notifications go to paired devices only, whenever a subscription is made or removed.
PushOnlyToPaired == \A d \in push : devices[d] = "active"
=============================================================================
