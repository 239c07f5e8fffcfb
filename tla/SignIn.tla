------------------------------- MODULE SignIn -------------------------------
(***************************************************************************)
(* Sign-in by password (auth/index.ts): attempts that are counted and lock *)
(* the account, and resets through a mailed token.  Each request reads the *)
(* user or the token first, spends its time hashing, and writes what it    *)
(* made of the first read.  One user; the session that a sign-in opens is  *)
(* not modelled.                                                           *)
(***************************************************************************)
EXTENDS Naturals, FiniteSets

CONSTANTS
    Attempts,     \* requests of the login page
    Tokens,       \* reset tokens that can be minted: bounds the resets
    MaxFails,     \* bounds the wrong passwords given in a row, and the counter
    MAX_LOGIN_FAILURES

ASSUME SignInAssumption == MAX_LOGIN_FAILURES \in Nat \ {0} /\ MaxFails \in Nat

VARIABLES
    count,     \* failedLoginCount
    lock,      \* loginLockedUntil: none, ahead or passed
    token,     \* per reset token: its row
    fresh,     \* a token was made less than RESET_COOLDOWN_MS ago
    doing,     \* per request: the step it is at
    seen,      \* per request: what it read
    wrong,     \* wrong passwords answered since the last right one or reset
    due,       \* the lock that the wrong passwords call for still holds
    mixed      \* two requests about the user, or two about one token, were under way

signInVars == <<count, lock, token, fresh, doing, seen, wrong, due, mixed>>

Row == [made : BOOLEAN, used : BOOLEAN, expired : BOOLEAN, changes : Nat]
Unread == [count |-> 0, lock |-> "none", right |-> FALSE, token |-> {}]

SignInInit ==
    /\ count = 0 /\ lock = "none" /\ fresh = FALSE
    /\ token = [k \in Tokens |-> [made |-> FALSE, used |-> FALSE, expired |-> FALSE, changes |-> 0]]
    /\ doing = [p \in Attempts |-> "idle"] /\ seen = [p \in Attempts |-> Unread]
    /\ wrong = 0 /\ due = FALSE /\ mixed = {}

Arrive(p, to, s) ==
    /\ doing[p] = "idle"
    /\ doing' = [doing EXCEPT ![p] = to] /\ seen' = [seen EXCEPT ![p] = s]
Depart(p, from) ==
    /\ doing[p] = from
    /\ doing' = [doing EXCEPT ![p] = "idle"] /\ seen' = [seen EXCEPT ![p] = Unread]

LoginSteps == {"verify"}
ResetSteps == {"expire", "mint", "change"}
\* Two that meet on the counter, or on the tokens; a reset clears the counter too.
Mix(kind) ==
    mixed' = mixed \cup (IF \E q \in Attempts : doing[q] \in LoginSteps \cup {"change"}
                             /\ (kind = "login" \/ doing[q] \in LoginSteps)
                         THEN {"login"} ELSE {})
                   \cup (IF kind = "reset" /\ \E q \in Attempts : doing[q] \in ResetSteps
                         THEN {"reset"} ELSE {})

-----------------------------------------------------------------------------
(* loginWithPassword *)

ReadUser(p) ==
    /\ \E right \in BOOLEAN :
            Arrive(p, "verify", [Unread EXCEPT !.count = count, !.lock = lock,
                                               !.right = right])
    /\ Mix("login")
    /\ UNCHANGED <<count, lock, token, fresh, wrong, due>>

Locked(p) == seen[p].lock = "ahead"

PastLimit(n) == n > MAX_LOGIN_FAILURES
AtLimit(n) == n >= MAX_LOGIN_FAILURES

\* The count and the lock are written from the read: a lock that had run out goes
\* back as it was, and one set meanwhile is lost.
Refuse(p) ==
    /\ Depart(p, "verify")
    /\ Locked(p) \/ ~seen[p].right
    /\ IF Locked(p) THEN UNCHANGED <<count, lock, wrong, due>>
       ELSE LET n == seen[p].count + 1 IN
            /\ wrong < MaxFails /\ n <= MaxFails
            /\ count' = n /\ wrong' = wrong + 1
            /\ lock' = IF AtLimit(n) THEN "ahead" ELSE seen[p].lock
            /\ due' = (due \/ wrong' >= MAX_LOGIN_FAILURES)
    /\ UNCHANGED <<token, fresh, mixed>>

Accept(p) ==
    /\ Depart(p, "verify")
    /\ ~Locked(p) /\ seen[p].right
    /\ count' = 0 /\ lock' = "none" /\ wrong' = 0 /\ due' = FALSE
    /\ UNCHANGED <<token, fresh, mixed>>

LockEnds ==
    /\ lock = "ahead" /\ lock' = "passed" /\ due' = FALSE
    /\ UNCHANGED <<count, token, fresh, doing, seen, wrong, mixed>>

-----------------------------------------------------------------------------
(* requestPasswordReset and resetPassword *)

Usable(k) == token[k].made /\ ~token[k].used /\ ~token[k].expired
Expired(S) == [k \in Tokens |-> IF k \in S /\ Usable(k) THEN [token[k] EXCEPT !.expired = TRUE]
                                ELSE token[k]]
OnlyUsed == {k \in Tokens : token[k].used}
Prior == Tokens

\* Silent when a token was made within the cooldown.
RequestReset(p) ==
    /\ ~fresh /\ Arrive(p, "expire", Unread) /\ Mix("reset")
    /\ UNCHANGED <<count, lock, token, fresh, wrong, due>>

ExpirePrior(p) ==
    /\ doing[p] = "expire" /\ doing' = [doing EXCEPT ![p] = "mint"]
    /\ token' = Expired(Prior)
    /\ UNCHANGED <<count, lock, fresh, seen, wrong, due, mixed>>

\* The new row, whose token goes out by mail.
MintToken(p) ==
    /\ Depart(p, "mint")
    /\ \E k \in Tokens : ~token[k].made /\ token' = [token EXCEPT ![k].made = TRUE]
    /\ fresh' = TRUE
    /\ UNCHANGED <<count, lock, wrong, due, mixed>>

CooldownEnds ==
    /\ fresh /\ fresh' = FALSE
    /\ UNCHANGED <<count, lock, token, doing, seen, wrong, due, mixed>>

TokenExpires(k) ==
    /\ Usable(k) /\ token' = [token EXCEPT ![k].expired = TRUE]
    /\ UNCHANGED <<count, lock, fresh, doing, seen, wrong, due, mixed>>

\* The check, before the new password is hashed.
PresentToken(p, k) ==
    /\ Usable(k) /\ Arrive(p, "change", [Unread EXCEPT !.token = {k}]) /\ Mix("reset")
    /\ UNCHANGED <<count, lock, token, fresh, wrong, due>>

Unspent(k) == [Expired(Tokens \ {k}) EXCEPT ![k].changes = @ + 1]
Spent(k) == [Expired(Tokens \ {k}) EXCEPT ![k].used = TRUE, ![k].changes = @ + 1]

\* One transaction: the token is used, the others expire, the password changes.
ChangePassword(p) ==
    /\ Depart(p, "change")
    /\ token' = Spent(CHOOSE k \in Tokens : k \in seen[p].token)
    /\ count' = 0 /\ lock' = "none" /\ wrong' = 0 /\ due' = FALSE
    /\ UNCHANGED <<fresh, mixed>>

\* A request dies, before a write or between two.
DieSigningIn(p) ==
    /\ doing[p] # "idle" /\ Depart(p, doing[p])
    /\ UNCHANGED <<count, lock, token, fresh, wrong, due, mixed>>

-----------------------------------------------------------------------------
SignInNext ==
    \/ LockEnds \/ CooldownEnds
    \/ \E k \in Tokens : TokenExpires(k)
    \/ \E p \in Attempts :
        \/ ReadUser(p) \/ Refuse(p) \/ Accept(p)
        \/ RequestReset(p) \/ ExpirePrior(p) \/ MintToken(p)
        \/ \E k \in Tokens : PresentToken(p, k)
        \/ ChangePassword(p) \/ DieSigningIn(p)

SignInSpec == SignInInit /\ [][SignInNext]_signInVars

-----------------------------------------------------------------------------
(* Properties *)

SignInTypeOK ==
    /\ count \in Nat /\ lock \in {"none", "ahead", "passed"} /\ fresh \in BOOLEAN
    /\ token \in [Tokens -> Row]
    /\ doing \in [Attempts -> {"idle"} \cup LoginSteps \cup ResetSteps]
    /\ wrong \in Nat /\ due \in BOOLEAN /\ mixed \subseteq {"login", "reset"}

\* After five wrong passwords in a row even the right one is refused until the
\* lock runs out or the password is reset: the lock that the answers call for is
\* on the row, unless attempts overlapped and lost a count (auth/index.ts:87-112).
LockoutHolds == "login" \notin mixed /\ due => lock = "ahead"

\* A reset link changes the password once, and the newest link is the only one
\* that still does, unless two resets were under way at once (auth/index.ts:119-196).
ResetOnce ==
    "reset" \notin mixed =>
        /\ Cardinality({k \in Tokens : Usable(k)}) <= 1
        /\ \A k \in Tokens : token[k].changes <= 1

=============================================================================
