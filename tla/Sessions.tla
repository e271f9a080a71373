------------------------------ MODULE Sessions ------------------------------
(***************************************************************************)
(* The sessions of an account: refresh tokens rotated on every use, in     *)
(* families that start at a sign in, shared by the tabs of a browser.      *)
(*                                                                         *)
(* Sign in, refresh, sign out and account deletion are served at the same  *)
(* time by transactions at READ COMMITTED.  An UPDATE or DELETE touches    *)
(* the rows that were committed when it began, one after the other, and    *)
(* waits for the lock of each; a lock is held until its transaction ends.  *)
(* A token is named by the call that issued it, a family by the sign in    *)
(* that started it.                                                        *)
(***************************************************************************)
EXTENDS Integers

CONSTANTS
  Tabs,        \* tabs of one browser
  NoTab,       \* nobody
  MaxCalls,    \* bound: calls the tabs make
  Mortal,      \* bound: tokens that are followed until they expire
  MaxFaults    \* bound: failed statements and answers lost on the way

ASSUME SessionsAssumption ==
  /\ NoTab \notin Tabs /\ Mortal \subseteq Nat
  /\ MaxCalls \in Nat /\ MaxFaults \in Nat

VARIABLES
  \* the database of the identity service, as committed
  row,       \* refresh_tokens
  account,   \* the row of the account in users
  \* the calls and the transactions that serve them
  call,
  \* the browser; another device is, to the service, one more sign in
  stored,    \* the refresh token in local storage
  session,   \* whether a tab holds a session in memory
  faults

vars == <<row, account, call, stored, session, faults>>

Calls == 1 .. MaxCalls
None == 0

Row == [family : 0 .. MaxCalls, used : {"no", "recent", "long"}, revoked : BOOLEAN,
        life : {"none", "live", "expired", "gone"}]
NoRow == [family |-> None, used |-> "no", revoked |-> FALSE, life |-> "none"]
NewRow(f) == [family |-> f, used |-> "no", revoked |-> FALSE, life |-> "live"]

Kinds == {"none", "login", "refresh", "logout", "delete"}
Running == {"sent", "exchanging", "revoking", "deleting", "cascading"}
Final == {"ok", "refused", "rotated", "replayed", "error"}

(* A call, the tab that waits for its answer, and its transaction. *)
Call == [kind : Kinds, token : 0 .. MaxCalls, stage : Running \union Final,
         waiting : Tabs \union {NoTab}, snapshot : SUBSET Calls, todo : SUBSET Calls, held : SUBSET Calls]
NoCall == [kind |-> "none", token |-> None, stage |-> "ok", waiting |-> NoTab,
           snapshot |-> {}, todo |-> {}, held |-> {}]

Init ==
  /\ row = [k \in Calls |-> NoRow]
  /\ account = TRUE
  /\ call = [c \in Calls |-> NoCall]
  /\ stored = None
  /\ session = [t \in Tabs |-> FALSE]
  /\ faults = 0

database == <<row, account>>
browser == <<stored, session>>
-----------------------------------------------------------------------------
Present(k) == row[k].life \in {"live", "expired"}

(* A token the service would exchange. *)
Usable(k) == row[k].life = "live" /\ row[k].used = "no" /\ ~ row[k].revoked

(* Mutant: the select does not lock. *)
NobodyLocks(c, k) == TRUE

Free(c, k) == \A d \in Calls \ {c} : k \notin call[d].held

(* A statement gets past a row that is free, or that is gone. *)
Passes(c, k) == ~ Present(k) \/ Free(c, k)

(* The account row is locked by a deletion until the deletion commits. *)
Deletions == {d \in Calls : call[d].stage = "cascading"}

Unrevoked == {k \in Calls : Present(k) /\ ~ row[k].revoked}

InFamily(f) == {k \in Unrevoked : row[k].family = f}

(* Mutant: a transaction that is given up is not rolled back. *)
EndWithoutRollback(c, how) == call' = [call EXCEPT ![c].stage = how, ![c].todo = {}]

(* The transaction ends and its locks are released. *)
End(c, how) == call' = [call EXCEPT ![c].stage = how, ![c].todo = {}, ![c].held = {}]

Move(c, stage, todo, held) ==
  call' = [call EXCEPT ![c].stage = stage, ![c].todo = todo, ![c].held = held,
                       ![c].snapshot = IF stage = "revoking" THEN {k \in Calls : Present(k)} ELSE {}]
-----------------------------------------------------------------------------
(* THE BROWSERS *)

(* A tab calls the service.  Nobody looks at the answer of a sign out.     *)
Send(t, kind, k) ==
  LET unused == {c \in Calls : call[c].kind = "none"}
  IN \E c \in unused :
       /\ \A d \in unused : c <= d
       /\ call' = [call EXCEPT ![c] = [NoCall EXCEPT !.kind = kind, !.token = k, !.stage = "sent",
                                       !.waiting = IF kind = "logout" THEN NoTab ELSE t]]

Waiting(t, kind) == \E c \in Calls : call[c].kind = kind /\ call[c].waiting = t

SignIn(t) ==
  /\ ~ session[t] /\ ~ Waiting(t, "login")
  /\ Send(t, "login", None)
  /\ UNCHANGED <<database, browser, faults>>

(* One refresh in flight is shared by everything the tab asks for. *)
RefreshSession(t) ==
  /\ stored # None /\ ~ Waiting(t, "refresh")
  /\ Send(t, "refresh", stored)
  /\ UNCHANGED <<database, browser, faults>>

StartSession(c) ==
  /\ stored' = c
  /\ session' = [session EXCEPT ![call[c].waiting] = TRUE]

ClearSession(t) ==
  /\ stored' = None
  /\ session' = [session EXCEPT ![t] = FALSE]

(* Signing out forgets the session at once and then tells the service. *)
SignOut(t) ==
  /\ session[t]
  /\ ClearSession(t)
  /\ \/ stored # None /\ Send(t, "logout", stored)
     \/ stored = None /\ UNCHANGED call
  /\ UNCHANGED <<database, faults>>

DeleteAccount(t) ==
  /\ session[t] /\ ~ Waiting(t, "delete")
  /\ Send(t, "delete", None)
  /\ UNCHANGED <<database, browser, faults>>

Heard(c) == call' = [call EXCEPT ![c].waiting = NoTab]

(* A failure of any kind to renew the session ends it for the browser. *)
OnError(c) ==
  IF call[c].kind = "refresh" THEN ClearSession(call[c].waiting) ELSE UNCHANGED browser

Answer(c) ==
  /\ call[c].waiting \in Tabs /\ call[c].stage \in Final
  /\ Heard(c)
  /\ \/ call[c].stage = "ok" /\ call[c].kind # "delete" /\ StartSession(c)
     \/ call[c].stage = "ok" /\ call[c].kind = "delete" /\ ClearSession(call[c].waiting)
     \/ call[c].stage # "ok" /\ OnError(c)
  /\ UNCHANGED <<database, faults>>

(* The connection breaks; the service may go on with the call. *)
LoseAnswer(c) ==
  /\ call[c].waiting \in Tabs /\ faults < MaxFaults
  /\ faults' = faults + 1
  /\ Heard(c)
  /\ OnError(c)
  /\ UNCHANGED database

(* A reload forgets what was in memory and the calls in flight. *)
Reload(t) ==
  /\ session[t] \/ \E c \in Calls : call[c].waiting = t
  /\ session' = [session EXCEPT ![t] = FALSE]
  /\ call' = [c \in Calls |-> IF call[c].waiting = t THEN [call[c] EXCEPT !.waiting = NoTab] ELSE call[c]]
  /\ UNCHANGED <<database, stored, faults>>
-----------------------------------------------------------------------------
(* THE SERVICE *)

(* Login and Register: the first token of a family.  The foreign key waits *)
(* for a deletion of the account, and refuses the row after it.            *)
InsertSession(c) ==
  /\ call[c].kind = "login" /\ call[c].stage = "sent" /\ Deletions = {}
  /\ \/ account /\ row' = [row EXCEPT ![c] = NewRow(c)] /\ End(c, "ok")
     \/ ~ account /\ End(c, "refused") /\ UNCHANGED row
  /\ UNCHANGED <<account, browser, faults>>

(* Mutant: a revoked token is exchanged as long as it was not used. *)
RefusedIfExpired(k) == row[k].used = "no" /\ row[k].life = "expired"

Recent(k) == row[k].used = "recent" /\ ~ row[k].revoked
Replayed(k) == row[k].used # "no" /\ ~ Recent(k)
Refused(k) == row[k].used = "no" /\ ~ Usable(k)

(* SELECT ... FOR UPDATE of the presented token, and what is read from it: *)
(* a token exchanged a moment ago lost a race between tabs, one exchanged  *)
(* long ago is a replay that ends the family.                              *)
LockToken(c) ==
  /\ call[c].kind = "refresh" /\ call[c].stage = "sent" /\ Passes(c, call[c].token)
  /\ LET k == call[c].token
     IN \/ ~ Present(k) /\ End(c, "refused")
        \/ /\ Present(k)
           /\ \/ Recent(k) /\ End(c, "rotated")
              \/ Replayed(k) /\ Move(c, "revoking", InFamily(row[k].family), {k})
              \/ Refused(k) /\ End(c, "refused")
              \/ row[k].used = "no" /\ ~ Refused(k) /\ Move(c, "exchanging", {}, {k})
  /\ UNCHANGED <<database, browser, faults>>

(* Mutant: no foreign key. *)
ExchangeUnchecked(c) ==
  /\ call[c].stage = "exchanging"
  /\ row' = [row EXCEPT ![call[c].token].used = "recent", ![c] = NewRow(row[call[c].token].family)]
  /\ End(c, "ok")
  /\ UNCHANGED <<account, browser, faults>>

(* The token is spent and its successor issued, in one transaction.  The   *)
(* foreign key of the successor waits for a deletion of the account.       *)
Exchange(c) ==
  /\ call[c].stage = "exchanging" /\ Deletions = {} /\ account
  /\ row' = [row EXCEPT ![call[c].token].used = "recent", ![c] = NewRow(row[call[c].token].family)]
  /\ End(c, "ok")
  /\ UNCHANGED <<account, browser, faults>>

(* Mutant: only the token that was presented. *)
RevokePresented(c) ==
  /\ call[c].kind = "logout" /\ call[c].stage = "sent"
  /\ Move(c, "revoking", {call[c].token} \intersect Unrevoked, {})
  /\ UNCHANGED <<database, browser, faults>>

(* Logout: every token of the family of the presented one. *)
RevokeRefreshToken(c) ==
  /\ call[c].kind = "logout" /\ call[c].stage = "sent"
  /\ Move(c, "revoking", IF Present(call[c].token) THEN InFamily(row[call[c].token].family) ELSE {}, {})
  /\ UNCHANGED <<database, browser, faults>>

(* DeleteAccount finds the account and revokes all of its tokens first. *)
RevokeAllForUser(c) ==
  /\ call[c].kind = "delete" /\ call[c].stage = "sent"
  /\ \/ account /\ Move(c, "revoking", Unrevoked, {})
     \/ ~ account /\ End(c, "refused")
  /\ UNCHANGED <<database, browser, faults>>

(* DELETE FROM users takes the row of the account and then, by cascade,    *)
(* the tokens committed by now.                                            *)
DeleteUser(c) ==
  /\ call[c].stage = "deleting" /\ Deletions = {}
  /\ \/ account /\ Move(c, "cascading", {k \in Calls : Present(k)}, {})
     \/ ~ account /\ End(c, "refused")
  /\ UNCHANGED <<database, browser, faults>>

(* The statement comes to its next row, in an order nobody promises, and   *)
(* waits for its lock; a row deleted meanwhile is passed over.             *)
TouchRow(c) ==
  /\ \E k \in call[c].todo :
       /\ Passes(c, k)
       /\ call' = [call EXCEPT ![c].todo = @ \ {k},
                               ![c].held = IF Present(k) THEN @ \union {k} ELSE @]
  /\ UNCHANGED <<database, browser, faults>>

Outcome(c) == CASE call[c].kind = "refresh" -> "replayed"
                [] call[c].kind = "logout" -> "ok"
                [] OTHER -> "deleting"

CommitRevocation(c) ==
  /\ call[c].stage = "revoking" /\ call[c].todo = {}
  /\ row' = [k \in Calls |-> IF k \in call[c].held THEN [row[k] EXCEPT !.revoked = TRUE] ELSE row[k]]
  /\ End(c, Outcome(c))
  /\ UNCHANGED <<account, browser, faults>>

CommitDeletion(c) ==
  /\ call[c].stage = "cascading" /\ call[c].todo = {}
  /\ row' = [k \in Calls |-> IF k \in call[c].held THEN [row[k] EXCEPT !.life = "gone"] ELSE row[k]]
  /\ account' = FALSE
  /\ End(c, "ok")
  /\ UNCHANGED <<browser, faults>>

WaitsFor(c, d) ==
  /\ c # d
  /\ \/ call[c].kind = "refresh" /\ call[c].stage = "sent" /\ call[c].token \in call[d].held
     \/ call[c].todo \intersect call[d].held # {}
     \/ call[c].stage \in {"exchanging", "deleting"} /\ call[d].stage = "cascading"

(* What the database looks for: transactions that wait for one another.    *)
(* A statement waits at one row, so all that it has left must be taken.    *)
Stuck(c) ==
  /\ \E d \in Calls : WaitsFor(c, d)
  /\ \A k \in call[c].todo : ~ Passes(c, k)

Deadlocks ==
  {S \in SUBSET {c \in Calls : Stuck(c)} : S # {} /\ \A c \in S : \E d \in S : WaitsFor(c, d)}

(* One of them is rolled back with an error. *)
DeadlockVictim(c) ==
  /\ c \in UNION Deadlocks
  /\ End(c, "error")
  /\ UNCHANGED <<database, browser, faults>>

(* A statement fails, or the service stops while it serves the call. *)
Fail(c) ==
  /\ call[c].stage \in Running /\ faults < MaxFaults
  /\ faults' = faults + 1
  /\ End(c, "error")
  /\ UNCHANGED <<database, browser>>
-----------------------------------------------------------------------------
(* TIME *)

(* The exchange of a token is longer ago than ReuseGracePeriod. *)
GraceEnds(k) ==
  /\ row[k].used = "recent"
  /\ row' = [row EXCEPT ![k].used = "long"]
  /\ UNCHANGED <<account, call, browser, faults>>

Expire(k) ==
  /\ row[k].life = "live" /\ k \in Mortal
  /\ row' = [row EXCEPT ![k].life = "expired"]
  /\ UNCHANGED <<account, call, browser, faults>>

(* DeleteExpiredTokens, thirty days later: the calls of that time are over *)
(* and the tokens that succeeded it had expired as well.  (The oldest      *)
(* tokens of a family kept alive for so long are left in their place.)     *)
DeleteExpiredTokens(k) ==
  /\ row[k].life = "expired" /\ row[k].used # "recent"
  /\ \A l \in Calls : row[l].family = row[k].family => row[l].life # "live"
  /\ \A c \in Calls : call[c].stage \in Running =>
       /\ call[c].token # None => row[call[c].token].family # row[k].family
       /\ k \notin call[c].todo \union call[c].held
  /\ row' = [row EXCEPT ![k].life = "gone"]
  /\ UNCHANGED <<account, call, browser, faults>>

Use(t) == SignIn(t) \/ RefreshSession(t) \/ SignOut(t) \/ DeleteAccount(t) \/ Reload(t)

Serve(c) ==
  \/ InsertSession(c) \/ LockToken(c) \/ Exchange(c)
  \/ RevokeRefreshToken(c) \/ RevokeAllForUser(c) \/ DeleteUser(c)
  \/ TouchRow(c) \/ CommitRevocation(c) \/ CommitDeletion(c) \/ DeadlockVictim(c)

Next ==
  \/ \E t \in Tabs : Use(t)
  \/ \E c \in Calls : Serve(c) \/ Answer(c) \/ LoseAnswer(c) \/ Fail(c)
  \/ \E k \in Calls : GraceEnds(k) \/ Expire(k) \/ DeleteExpiredTokens(k)

Spec == Init /\ [][Next]_vars
-----------------------------------------------------------------------------
(* The type invariant; only a transaction that is running holds a lock. *)
TypeOK ==
  /\ row \in [Calls -> Row]
  /\ account \in BOOLEAN
  /\ call \in [Calls -> Call]
  /\ stored \in 0 .. MaxCalls
  /\ session \in [Tabs -> BOOLEAN]
  /\ faults \in 0 .. MaxFaults
  /\ \A c \in Calls : call[c].stage \notin Running \ {"sent"} => call[c].held = {}

(* However many tabs present the same token at the same time, a session    *)
(* never splits: at most one token of a family can be exchanged.           *)
OneUsableToken ==
  \A k, l \in Calls : Usable(k) /\ Usable(l) /\ row[k].family = row[l].family => k = l

(* The exchange of a token that was good when it was locked. *)
Exchanging(c) == call[c].stage = "exchanging" /\ ~ row[call[c].token].revoked

(* A session that ended, with no exchange under way, never comes back:     *)
(* not by a late call, a retry, a reload or a repeated presentation.       *)
EndedStaysEnded ==
  [][\A f \in Calls :
       /\ row[f].life # "none"
       /\ \A k \in Calls : row[k].family = f => ~ Usable(k)
       /\ \A c \in Calls : Exchanging(c) => row[call[c].token].family # f
       => \A k \in Calls : row'[k].family = f => ~ Usable(k)']_vars

Revoker(c) ==
  \/ call[c].kind = "logout" /\ call[c].stage = "ok"
  \/ call[c].kind = "refresh" /\ call[c].stage = "replayed"

(* After a sign out was answered, or a replay detected, no token of that   *)
(* session that was committed when the revocation began works any more,    *)
(* whatever was waited for and rolled back on the way.                     *)
RevocationEndsWhatItSaw ==
  \A c \in Calls : Revoker(c) =>
    \A k \in call[c].snapshot : row[k].family = row[call[c].token].family => ~ Usable(k)

(* An account that is gone takes every session with it, those a sign in or *)
(* a refresh was starting at that moment included.                         *)
DeletedTakesEverySession == ~ account => \A k \in Calls : ~ Present(k)

(* The call has a next step and need not wait for it: Serve(c) is enabled. *)
CanGoOn(c) ==
  \/ call[c].stage = "sent" /\ call[c].kind \in {"logout", "delete"}
  \/ call[c].stage = "sent" /\ call[c].kind = "login" /\ Deletions = {}
  \/ call[c].stage = "sent" /\ call[c].kind = "refresh" /\ Passes(c, call[c].token)
  \/ call[c].stage = "exchanging" /\ Deletions = {} /\ account
  \/ call[c].stage = "deleting" /\ Deletions = {}
  \/ /\ call[c].stage \in {"revoking", "cascading"}
     /\ call[c].todo = {} \/ \E k \in call[c].todo : Passes(c, k)
  \/ c \in UNION Deadlocks

(* As long as a call is being served some transaction can go on: those     *)
(* that wait for each other in a circle are always found out.              *)
NeverStuck ==
  (\E c \in Calls : call[c].stage \in Running) => \E c \in Calls : CanGoOn(c)
=============================================================================
