--------------------------- MODULE SessionsProofs ---------------------------
(***************************************************************************)
(* Proofs about the sessions, for any tabs and any number of calls.        *)
(***************************************************************************)
EXTENDS Sessions, TLAPS

USE SessionsAssumption

-----------------------------------------------------------------------------
(* What each way to change a call does to it, field by field. *)

Others(c) == \A d \in Calls \ {c} : call'[d] = call[d]

Keeps(c) ==
  /\ call'[c].kind = call[c].kind
  /\ call'[c].token = call[c].token
  /\ call'[c].waiting \in {call[c].waiting, NoTab}

(* The record of a call with some of its fields replaced. *)
LEMMA CallUpdated ==
  ASSUME TypeOK, NEW c \in Calls, NEW r \in Call, call' = [call EXCEPT ![c] = r]
  PROVE  call' \in [Calls -> Call] /\ Others(c) /\ call'[c] = r
BY DEF TypeOK, Others

LEMMA EndDoes ==
  ASSUME TypeOK, NEW c \in Calls, NEW how \in Running \union Final, End(c, how)
  PROVE  /\ call' \in [Calls -> Call]
         /\ Others(c) /\ Keeps(c)
         /\ call'[c].stage = how /\ call'[c].todo = {} /\ call'[c].held = {}
         /\ call'[c].snapshot = call[c].snapshot
<1> DEFINE r == [call[c] EXCEPT !.stage = how, !.todo = {}, !.held = {}]
<1>1. call' = [call EXCEPT ![c] = r]
  BY DEF TypeOK, End
<1>2. call[c] \in Call
  BY DEF TypeOK
<1>3. /\ r \in Call /\ r.kind = call[c].kind /\ r.token = call[c].token /\ r.waiting \in {call[c].waiting, NoTab}
      /\ r.stage = how /\ r.todo = {} /\ r.held = {} /\ r.snapshot = call[c].snapshot
  BY <1>2 DEF Call
<1> HIDE DEF r
<1>4. QED
  BY <1>1, <1>3, CallUpdated DEF Keeps

LEMMA MoveDoes ==
  ASSUME TypeOK, NEW c \in Calls, NEW stage \in Running, NEW todo \in SUBSET Calls,
         NEW held \in SUBSET Calls, Move(c, stage, todo, held)
  PROVE  /\ call' \in [Calls -> Call]
         /\ Others(c) /\ Keeps(c)
         /\ call'[c].stage = stage /\ call'[c].todo = todo /\ call'[c].held = held
         /\ call'[c].snapshot = IF stage = "revoking" THEN {k \in Calls : Present(k)} ELSE {}
<1> DEFINE snap == IF stage = "revoking" THEN {k \in Calls : Present(k)} ELSE {}
           r == [call[c] EXCEPT !.stage = stage, !.todo = todo, !.held = held, !.snapshot = snap]
<1>1. call' = [call EXCEPT ![c] = r]
  BY DEF TypeOK, Move
<1>2. call[c] \in Call
  BY DEF TypeOK
<1>3. snap \in SUBSET Calls
  OBVIOUS
<1> HIDE DEF snap
<1>4. /\ r \in Call /\ r.kind = call[c].kind /\ r.token = call[c].token /\ r.waiting \in {call[c].waiting, NoTab}
      /\ r.stage = stage /\ r.todo = todo /\ r.held = held /\ r.snapshot = snap
  BY <1>2, <1>3 DEF Call
<1> HIDE DEF r
<1>5. QED
  BY <1>1, <1>4, CallUpdated DEF Keeps, snap

LEMMA TouchDoes ==
  ASSUME TypeOK, NEW c \in Calls, TouchRow(c)
  PROVE  \E k \in call[c].todo :
           /\ Present(k) => Free(c, k)
           /\ call' \in [Calls -> Call]
           /\ Others(c) /\ Keeps(c)
           /\ call'[c].stage = call[c].stage /\ call'[c].todo = call[c].todo \ {k}
           /\ call'[c].held = IF Present(k) THEN call[c].held \union {k} ELSE call[c].held
           /\ call'[c].snapshot = call[c].snapshot
<1>1. PICK k \in call[c].todo :
        /\ ~ Present(k) \/ Free(c, k)
        /\ call' = [call EXCEPT ![c].todo = @ \ {k},
                                ![c].held = IF Present(k) THEN @ \union {k} ELSE @]
  BY DEF TouchRow, Passes
<1> DEFINE locked == IF Present(k) THEN call[c].held \union {k} ELSE call[c].held
           r == [call[c] EXCEPT !.todo = call[c].todo \ {k}, !.held = locked]
<1>2. call[c] \in Call
  BY DEF TypeOK
<1>3. call' = [call EXCEPT ![c] = r]
  BY <1>1, <1>2 DEF TypeOK, Call
<1>4. locked \in SUBSET Calls
  BY <1>2 DEF Call
<1> HIDE DEF locked
<1>5. /\ r \in Call /\ r.kind = call[c].kind /\ r.token = call[c].token /\ r.waiting \in {call[c].waiting, NoTab}
      /\ r.stage = call[c].stage /\ r.todo = call[c].todo \ {k} /\ r.held = locked
      /\ r.snapshot = call[c].snapshot
  BY <1>2, <1>4 DEF Call
<1> HIDE DEF r
<1>6. QED
  BY <1>1, <1>3, <1>5, CallUpdated DEF Keeps, locked

(* A step of the browsers that sends nothing leaves the transactions be. *)
Untouched ==
  /\ call' \in [Calls -> Call]
  /\ \A c \in Calls :
       /\ Keeps(c)
       /\ call'[c].stage = call[c].stage /\ call'[c].todo = call[c].todo
       /\ call'[c].held = call[c].held /\ call'[c].snapshot = call[c].snapshot

LEMMA HeardDoes ==
  ASSUME TypeOK, NEW c \in Calls, Heard(c)
  PROVE  Untouched
<1> DEFINE r == [call[c] EXCEPT !.waiting = NoTab]
<1>1. call' = [call EXCEPT ![c] = r]
  BY DEF TypeOK, Heard
<1>2. call[c] \in Call
  BY DEF TypeOK
<1>3. /\ r \in Call /\ r.kind = call[c].kind /\ r.token = call[c].token /\ r.waiting \in {call[c].waiting, NoTab}
      /\ r.stage = call[c].stage /\ r.todo = call[c].todo /\ r.held = call[c].held
      /\ r.snapshot = call[c].snapshot
  BY <1>2 DEF Call
<1> HIDE DEF r
<1>4. QED
  BY <1>1, <1>3, CallUpdated DEF Untouched, Keeps, Others

LEMMA SendDoes ==
  ASSUME TypeOK, NEW t \in Tabs, NEW kind \in Kinds \ {"none"}, NEW k \in 0 .. MaxCalls,
         Send(t, kind, k)
  PROVE  \E c \in Calls :
           /\ call[c].kind = "none"
           /\ call' \in [Calls -> Call]
           /\ Others(c)
           /\ call'[c].kind = kind /\ call'[c].token = k /\ call'[c].stage = "sent"
           /\ call'[c].todo = {} /\ call'[c].held = {} /\ call'[c].snapshot = {}
           /\ call'[c].waiting # NoTab => kind # "logout"
<1>1. PICK c \in Calls :
        /\ call[c].kind = "none"
        /\ call' = [call EXCEPT ![c] = [NoCall EXCEPT !.kind = kind, !.token = k, !.stage = "sent",
                                       !.waiting = IF kind = "logout" THEN NoTab ELSE t]]
  BY DEF Send
<1> DEFINE r == [NoCall EXCEPT !.kind = kind, !.token = k, !.stage = "sent",
                               !.waiting = IF kind = "logout" THEN NoTab ELSE t]
<1>2. NoCall \in Call /\ NoCall.todo = {} /\ NoCall.held = {} /\ NoCall.snapshot = {}
  BY DEF NoCall, Call, Running, Final, None, Kinds
<1>3. /\ r \in Call /\ r.kind = kind /\ r.token = k /\ r.stage = "sent"
      /\ r.todo = {} /\ r.held = {} /\ r.snapshot = {} /\ (r.waiting # NoTab => kind # "logout")
  BY <1>2 DEF Call, Running
<1>4. call' = [call EXCEPT ![c] = r]
  BY <1>1
<1> HIDE DEF r
<1>5. QED
  BY <1>1, <1>3, <1>4, CallUpdated

LEMMA ReloadDoes ==
  ASSUME TypeOK, NEW t \in Tabs, Reload(t)
  PROVE  Untouched
<1> SUFFICES ASSUME NEW c \in Calls
             PROVE  /\ call'[c] \in Call /\ Keeps(c)
                    /\ call'[c].stage = call[c].stage /\ call'[c].todo = call[c].todo
                    /\ call'[c].held = call[c].held /\ call'[c].snapshot = call[c].snapshot
  BY DEF Reload, Untouched
<1> DEFINE r == [call[c] EXCEPT !.waiting = NoTab]
<1>1. call'[c] = call[c] \/ call'[c] = r
  BY DEF Reload
<1>2. call[c] \in Call
  BY DEF TypeOK
<1>3. /\ r \in Call /\ r.kind = call[c].kind /\ r.token = call[c].token /\ r.waiting \in {call[c].waiting, NoTab}
      /\ r.stage = call[c].stage /\ r.todo = call[c].todo /\ r.held = call[c].held
      /\ r.snapshot = call[c].snapshot
  BY <1>2 DEF Call
<1> HIDE DEF r
<1>4. QED
  BY <1>1, <1>2, <1>3 DEF Keeps
-----------------------------------------------------------------------------
(* What the steps do to the rows. *)

(* Rows other than k stay, and k keeps its family. *)
RowChanges(k) ==
  /\ row' \in [Calls -> Row]
  /\ \A l \in Calls \ {k} : row'[l] = row[l]
  /\ row'[k].family = row[k].family

LEMMA Lapses ==
  ASSUME TypeOK, NEW k \in Calls, GraceEnds(k) \/ Expire(k) \/ DeleteExpiredTokens(k)
  PROVE  /\ RowChanges(k) /\ row'[k].revoked = row[k].revoked
         /\ row'[k].life = "none" <=> row[k].life = "none"
         /\ row'[k].life = "live" => row[k].life = "live"
         /\ Present(k)' => Present(k)
         /\ row'[k].used = "no" <=> row[k].used = "no"
<1> DEFINE long == [row[k] EXCEPT !.used = "long"]
           dead(life) == [row[k] EXCEPT !.life = life]
<1>1. long \in Row /\ long.family = row[k].family /\ long.life = row[k].life
      /\ long.used = "long" /\ long.revoked = row[k].revoked
  BY DEF TypeOK, Row
<1>2. ASSUME NEW life \in {"expired", "gone"}
      PROVE  /\ dead(life) \in Row /\ dead(life).family = row[k].family /\ dead(life).life = life
             /\ dead(life).used = row[k].used /\ dead(life).revoked = row[k].revoked
  BY DEF TypeOK, Row
<1>3. CASE GraceEnds(k)
  <2>1. row' = [row EXCEPT ![k] = long] /\ row[k].used = "recent"
    BY <1>3 DEF GraceEnds
  <2> HIDE DEF long
  <2>2. QED
    BY <1>1, <2>1 DEF TypeOK, RowChanges, Present
<1>4. CASE Expire(k)
  <2>1. row' = [row EXCEPT ![k] = dead("expired")] /\ row[k].life = "live"
    BY <1>4 DEF Expire
  <2> HIDE DEF dead
  <2>2. QED
    BY <1>2, <2>1 DEF TypeOK, RowChanges, Present
<1>5. CASE DeleteExpiredTokens(k)
  <2>1. row' = [row EXCEPT ![k] = dead("gone")] /\ row[k].life = "expired"
    BY <1>5 DEF DeleteExpiredTokens
  <2> HIDE DEF dead
  <2>2. QED
    BY <1>2, <2>1 DEF TypeOK, RowChanges, Present
<1>6. QED
  BY <1>3, <1>4, <1>5

LEMMA NewRowIs ==
  ASSUME NEW f \in Calls
  PROVE  /\ NewRow(f) \in Row /\ NewRow(f).family = f /\ NewRow(f).life = "live"
         /\ NewRow(f).used = "no" /\ NewRow(f).revoked = FALSE
BY DEF NewRow, Row, Calls

LEMMA Issues ==
  ASSUME TypeOK, NEW c \in Calls, NEW f \in Calls, row' = [row EXCEPT ![c] = NewRow(f)]
  PROVE  /\ row' \in [Calls -> Row]
         /\ \A l \in Calls \ {c} : row'[l] = row[l]
         /\ row'[c].family = f /\ row'[c].life = "live" /\ row'[c].used = "no"
         /\ row'[c].revoked = FALSE
BY NewRowIs DEF TypeOK

LEMMA Rotates ==
  ASSUME TypeOK, NEW c \in Calls, NEW k \in Calls \ {c}, row[k].family \in Calls,
         row' = [row EXCEPT ![k].used = "recent", ![c] = NewRow(row[k].family)]
  PROVE  /\ row' \in [Calls -> Row]
         /\ \A l \in Calls \ {c, k} : row'[l] = row[l]
         /\ row'[k].family = row[k].family /\ row'[k].life = row[k].life
         /\ row'[k].used = "recent" /\ row'[k].revoked = row[k].revoked
         /\ row'[c].family = row[k].family /\ row'[c].life = "live" /\ row'[c].used = "no"
         /\ row'[c].revoked = FALSE
<1> DEFINE r == [row[k] EXCEPT !.used = "recent"]
<1>1. /\ r \in Row /\ r.family = row[k].family /\ r.life = row[k].life
      /\ r.used = "recent" /\ r.revoked = row[k].revoked
  BY DEF TypeOK, Row
<1>2. row' = [[row EXCEPT ![k] = r] EXCEPT ![c] = NewRow(row[k].family)]
  BY DEF TypeOK
<1> DEFINE n == NewRow(row[k].family)
<1>3. /\ n \in Row /\ n.family = row[k].family /\ n.life = "live"
      /\ n.used = "no" /\ n.revoked = FALSE
  BY NewRowIs
<1> HIDE DEF r, n
<1>4. QED
  BY <1>1, <1>2, <1>3 DEF TypeOK, n

(* A transaction that ends writes the rows it holds, and no others. *)
LEMMA Revokes ==
  ASSUME TypeOK, NEW c \in Calls,
         row' = [k \in Calls |-> IF k \in call[c].held THEN [row[k] EXCEPT !.revoked = TRUE] ELSE row[k]]
  PROVE  /\ row' \in [Calls -> Row]
         /\ \A k \in Calls : /\ row'[k].family = row[k].family /\ row'[k].life = row[k].life
                             /\ row'[k].used = row[k].used
                             /\ k \in call[c].held => row'[k].revoked = TRUE
                             /\ k \notin call[c].held => row'[k].revoked = row[k].revoked
<1>1. ASSUME NEW k \in Calls
      PROVE  LET r == [row[k] EXCEPT !.revoked = TRUE]
             IN /\ r \in Row /\ r.family = row[k].family /\ r.life = row[k].life
                /\ r.used = row[k].used /\ r.revoked = TRUE
  BY DEF TypeOK, Row
<1>2. \A k \in Calls : row[k] \in Row
  BY DEF TypeOK
<1>3. QED
  BY <1>1, <1>2

LEMMA Removes ==
  ASSUME TypeOK, NEW c \in Calls,
         row' = [k \in Calls |-> IF k \in call[c].held THEN [row[k] EXCEPT !.life = "gone"] ELSE row[k]]
  PROVE  /\ row' \in [Calls -> Row]
         /\ \A k \in Calls : /\ row'[k].family = row[k].family /\ row'[k].used = row[k].used
                             /\ row'[k].revoked = row[k].revoked
                             /\ row'[k].life = IF k \in call[c].held THEN "gone" ELSE row[k].life
<1>1. ASSUME NEW k \in Calls
      PROVE  LET r == [row[k] EXCEPT !.life = "gone"]
             IN /\ r \in Row /\ r.family = row[k].family /\ r.life = "gone"
                /\ r.used = row[k].used /\ r.revoked = row[k].revoked
  BY DEF TypeOK, Row
<1>2. \A k \in Calls : row[k] \in Row
  BY DEF TypeOK
<1>3. QED
  BY <1>1, <1>2
-----------------------------------------------------------------------------
(* THE INDUCTIVE INVARIANT *)

(* What the stage of a call says about it. *)
Stages ==
  \A c \in Calls :
    /\ call[c].stage \in Running => call[c].kind # "none"
    /\ call[c].todo # {} => call[c].stage \in {"revoking", "cascading"}
    /\ call[c].stage = "exchanging" => call[c].kind = "refresh" /\ call[c].held = {call[c].token}
    /\ call[c].stage = "revoking" => call[c].kind \in {"refresh", "logout", "delete"}
    /\ call[c].stage \in {"deleting", "cascading"} => call[c].kind = "delete"
    /\ call[c].kind \in {"refresh", "logout"} => call[c].token \in Calls
    /\ call[c].waiting # NoTab => call[c].kind \notin {"none", "logout"}

(* A row is locked by one transaction. *)
Locks == \A c, d \in Calls : c # d => call[c].held \intersect call[d].held = {}

Issued(k) == row[k].life # "none"

(* What is named was issued: families, tokens, and what is seen or locked. *)
Names ==
  /\ \A k \in Calls : Issued(k) => row[k].family \in Calls /\ Issued(row[k].family)
  /\ stored # None => Issued(stored)
  /\ \A c \in Calls :
       /\ call[c].kind \in {"refresh", "logout"} => Issued(call[c].token)
       /\ \A k \in call[c].snapshot \union call[c].held : Issued(k)

(* A call issues its token when it succeeds and not before. *)
Fresh ==
  \A c \in Calls :
    /\ call[c].kind = "none" \/ call[c].stage \in Running => ~ Issued(c)
    /\ call[c].kind \in {"login", "refresh"} /\ call[c].stage = "ok" => Issued(c)

(* A token that was not spent or revoked, expired or not. *)
Open(k) == Present(k) /\ row[k].used = "no" /\ ~ row[k].revoked

(* The lock keeps the token of an exchange as it was read. *)
Exchanges == \A c \in Calls : call[c].stage = "exchanging" => Open(call[c].token)

OneOpen == \A k, l \in Calls : Open(k) /\ Open(l) /\ row[k].family = row[l].family => k = l

(* Between DELETE FROM users and its commit no token is issued. *)
Cascade ==
  /\ \A c \in Calls : call[c].stage = "cascading" =>
       account /\ \A k \in Calls : Present(k) => k \in call[c].todo \union call[c].held
  /\ \A c, d \in Calls : call[c].stage = "cascading" /\ call[d].stage = "cascading" => c = d

(* A family with a deleted token is past use. *)
Past ==
  \A g \in Calls : row[g].life = "gone" =>
    /\ \A k \in Calls : row[k].family = row[g].family => row[k].life # "live"
    /\ \A c \in Calls : call[c].stage = "exchanging" => row[call[c].token].family # row[g].family

(* What a revocation saw and may still be used is yet to be written. *)
Revocations ==
  \A c \in Calls : call[c].stage = "revoking" /\ call[c].kind \in {"refresh", "logout"} =>
    \A k \in call[c].snapshot : row[k].family = row[call[c].token].family /\ Usable(k)
                                  => k \in call[c].todo \union call[c].held

Inv ==
  /\ TypeOK /\ Stages /\ Locks /\ Names /\ Fresh /\ Exchanges /\ OneOpen
  /\ DeletedTakesEverySession /\ Cascade /\ Past /\ Revocations /\ RevocationEndsWhatItSaw

LEMMA InitInv == Init => Inv
<1> SUFFICES ASSUME Init PROVE Inv
  OBVIOUS
<1>1. NoRow \in Row /\ NoRow.life = "none"
  BY DEF NoRow, Row, None
<1>2. /\ NoCall \in Call /\ NoCall.kind = "none" /\ NoCall.stage = "ok" /\ NoCall.waiting = NoTab
      /\ NoCall.todo = {} /\ NoCall.held = {} /\ NoCall.snapshot = {}
  BY DEF NoCall, Call, Running, Final, None, Kinds
<1>3. /\ \A k \in Calls : row[k] = NoRow
      /\ \A c \in Calls : call[c] = NoCall
  BY DEF Init
<1>4. TypeOK
  BY <1>1, <1>2, <1>3 DEF Init, TypeOK, Running, None
<1>5. Stages /\ Locks /\ Names /\ Fresh /\ Exchanges
  BY <1>1, <1>2, <1>3 DEF Init, Stages, Locks, Names, Fresh, Exchanges, Issued, Running, None
<1>6. OneOpen /\ DeletedTakesEverySession /\ Cascade /\ Past
  BY <1>1, <1>2, <1>3 DEF Init, OneOpen, Open, DeletedTakesEverySession, Cascade, Past, Present
<1>7. Revocations /\ RevocationEndsWhatItSaw
  BY <1>2, <1>3 DEF Revocations, RevocationEndsWhatItSaw, Revoker
<1>8. QED
  BY <1>4, <1>5, <1>6, <1>7 DEF Inv

(* An answer heard, or lost, or forgotten. *)
LEMMA HearingKeeps ==
  ASSUME Inv, Untouched, UNCHANGED database,
         stored' \in {stored, None} \union {k \in Calls : Issued(k)},
         session' \in [Tabs -> BOOLEAN], faults' \in 0 .. MaxFaults
  PROVE  Inv'
<1>1. TypeOK'
  BY DEF Inv, TypeOK, Untouched, database, None, Calls
<1>2. (Stages /\ Locks)'
  BY DEF Inv, Stages, Locks, Untouched, Keeps
<1>3. (Names /\ Fresh /\ Exchanges)'
  BY DEF Inv, Names, Fresh, Exchanges, Untouched, Keeps, database, Issued, Open, Present
<1>4. (OneOpen /\ DeletedTakesEverySession /\ Cascade /\ Past)'
  BY DEF Inv, OneOpen, Open, DeletedTakesEverySession, Cascade, Past, Present, Untouched, Keeps, database
<1>5. (Revocations /\ RevocationEndsWhatItSaw)'
  BY DEF Inv, Revocations, RevocationEndsWhatItSaw, Revoker, Usable, Untouched, Keeps, database
<1>6. QED
  BY <1>1, <1>2, <1>3, <1>4, <1>5 DEF Inv

LEMMA SendKeeps ==
  ASSUME Inv, NEW t \in Tabs, NEW kind \in Kinds \ {"none"}, NEW k \in 0 .. MaxCalls,
         kind \in {"refresh", "logout"} => k = stored /\ k # None,
         Send(t, kind, k), UNCHANGED <<database, faults>>,
         stored' \in {stored, None}, session' \in [Tabs -> BOOLEAN]
  PROVE  Inv'
<1>1. PICK c \in Calls :
        /\ call[c].kind = "none"
        /\ call' \in [Calls -> Call]
        /\ Others(c)
        /\ call'[c].kind = kind /\ call'[c].token = k /\ call'[c].stage = "sent"
        /\ call'[c].todo = {} /\ call'[c].held = {} /\ call'[c].snapshot = {}
        /\ call'[c].waiting # NoTab => kind # "logout"
  BY SendDoes DEF Inv
<1>2. TypeOK'
  BY <1>1 DEF Inv, TypeOK, Others, database, None, Running
<1>3. k # None => k \in Calls
  BY DEF None, Calls
<1>4. Stages'
  BY <1>1, <1>3 DEF Inv, Stages, Others
<1>5. Locks'
  BY <1>1 DEF Inv, Locks, Others
<1>6. (Names /\ Fresh /\ Exchanges)'
  BY <1>1 DEF Inv, Names, Fresh, Exchanges, Others, database, Issued, Open, Present
<1>7. (OneOpen /\ DeletedTakesEverySession /\ Cascade /\ Past)'
  BY <1>1 DEF Inv, OneOpen, Open, DeletedTakesEverySession, Cascade, Past, Present, Others, database
<1>8. (Revocations /\ RevocationEndsWhatItSaw)'
  BY <1>1 DEF Inv, Revocations, RevocationEndsWhatItSaw, Revoker, Usable, Others, database
<1>9. QED
  BY <1>2, <1>4, <1>5, <1>6, <1>7, <1>8 DEF Inv

(* A transaction that ends without having written. *)
LEMMA EndKeeps ==
  ASSUME Inv, NEW c \in Calls, call[c].stage \in Running,
         NEW how \in {"refused", "rotated", "error"}, End(c, how),
         UNCHANGED <<database, browser>>, faults' \in 0 .. MaxFaults
  PROVE  Inv'
<1>1. /\ call' \in [Calls -> Call]
      /\ Others(c) /\ Keeps(c)
      /\ call'[c].stage = how /\ call'[c].todo = {} /\ call'[c].held = {}
      /\ call'[c].snapshot = call[c].snapshot
  BY EndDoes DEF Inv, Final
<1>2. TypeOK'
  BY <1>1 DEF Inv, TypeOK, Others, database, browser
<1>3. (Stages /\ Locks)'
  BY <1>1 DEF Inv, Stages, Locks, Others, Keeps, Running
<1>4. (Names /\ Fresh /\ Exchanges)'
  BY <1>1 DEF Inv, Names, Fresh, Exchanges, Stages, Others, Keeps, database, browser, Issued, Open, Present, Running
<1>5. (OneOpen /\ DeletedTakesEverySession /\ Cascade /\ Past)'
  BY <1>1 DEF Inv, OneOpen, Open, DeletedTakesEverySession, Cascade, Past, Present, Others, database
<1>6. (Revocations /\ RevocationEndsWhatItSaw)'
  BY <1>1 DEF Inv, Revocations, RevocationEndsWhatItSaw, Revoker, Usable, Others, Keeps, database
<1>7. QED
  BY <1>2, <1>3, <1>4, <1>5, <1>6 DEF Inv

(* A refresh that locked its token. *)
LEMMA PresentedKeeps ==
  ASSUME Inv, NEW c \in Calls, call[c].kind = "refresh", call[c].stage = "sent",
         NEW k \in Calls, k = call[c].token, Open(k), row[k].life = "live", Free(c, k),
         Move(c, "exchanging", {}, {k}), UNCHANGED <<database, browser, faults>>
  PROVE  Inv'
<1>1. /\ call' \in [Calls -> Call]
      /\ Others(c) /\ Keeps(c)
      /\ call'[c].stage = "exchanging" /\ call'[c].todo = {} /\ call'[c].held = {k}
      /\ call'[c].snapshot = {}
  <2> DEFINE none == {}
  <2>1. none \in SUBSET Calls /\ Move(c, "exchanging", none, {k})
    OBVIOUS
  <2> HIDE DEF none
  <2>2. TypeOK /\ "exchanging" \in Running /\ {k} \in SUBSET Calls
    BY DEF Inv, Running
  <2>3. /\ call' \in [Calls -> Call]
        /\ Others(c) /\ Keeps(c)
        /\ call'[c].stage = "exchanging" /\ call'[c].todo = none /\ call'[c].held = {k}
        /\ call'[c].snapshot = IF "exchanging" = "revoking" THEN {l \in Calls : Present(l)} ELSE {}
    BY <2>1, <2>2, MoveDoes
  <2>4. QED
    BY <2>3 DEF none
<1>2. TypeOK'
  BY <1>1 DEF Inv, TypeOK, Others, database, browser, Running
<1>3. (Stages /\ Locks)'
  BY <1>1 DEF Inv, Stages, Locks, Others, Keeps, Running, Free
<1>4. (Names /\ Fresh /\ Exchanges)'
  BY <1>1 DEF Inv, Names, Fresh, Exchanges, Others, Keeps, database, browser, Issued, Open, Present, Running
<1>5. (OneOpen /\ DeletedTakesEverySession /\ Cascade)'
  BY <1>1 DEF Inv, OneOpen, Open, DeletedTakesEverySession, Cascade, Present, Others, database
<1>6. Past'
  BY <1>1 DEF Inv, Past, Others, Keeps, database
<1>7. (Revocations /\ RevocationEndsWhatItSaw)'
  BY <1>1 DEF Inv, Revocations, RevocationEndsWhatItSaw, Revoker, Usable, Others, Keeps, database
<1>8. QED
  BY <1>2, <1>3, <1>4, <1>5, <1>6, <1>7 DEF Inv

(* A revocation begins.  Its snapshot has all that is usable, and what is  *)
(* to be revoked has all of that in the family of the presented token.     *)
LEMMA RevokingKeeps ==
  ASSUME Inv, NEW c \in Calls, call[c].kind \in {"refresh", "logout", "delete"},
         call[c].stage = "sent", NEW todo \in SUBSET Calls, NEW held \in SUBSET Calls,
         \A k \in held : Free(c, k) /\ Present(k),
         call[c].kind \in {"refresh", "logout"} =>
           \A k \in Calls : row[k].family = row[call[c].token].family /\ Usable(k) => k \in todo,
         Move(c, "revoking", todo, held), UNCHANGED <<database, browser, faults>>
  PROVE  Inv'
<1>1. /\ call' \in [Calls -> Call]
      /\ Others(c) /\ Keeps(c)
      /\ call'[c].stage = "revoking" /\ call'[c].todo = todo /\ call'[c].held = held
      /\ call'[c].snapshot = {k \in Calls : Present(k)}
  BY MoveDoes DEF Inv, Running
<1>2. TypeOK'
  BY <1>1 DEF Inv, TypeOK, Others, database, browser, Running
<1>3. (Stages /\ Locks)'
  BY <1>1 DEF Inv, Stages, Locks, Others, Keeps, Running, Free
<1>4. (Names /\ Fresh /\ Exchanges)'
  BY <1>1 DEF Inv, Names, Fresh, Exchanges, Others, Keeps, database, browser, Issued, Open, Present, Running
<1>5. (OneOpen /\ DeletedTakesEverySession /\ Cascade /\ Past)'
  BY <1>1 DEF Inv, OneOpen, Open, DeletedTakesEverySession, Cascade, Past, Present, Others, Keeps, database
<1>6. (Revocations /\ RevocationEndsWhatItSaw)'
  BY <1>1 DEF Inv, Revocations, RevocationEndsWhatItSaw, Revoker, Usable, Others, Keeps, database
<1>7. QED
  BY <1>2, <1>3, <1>4, <1>5, <1>6 DEF Inv

(* DELETE FROM users begins. *)
LEMMA DeletingKeeps ==
  ASSUME Inv, NEW c \in Calls, call[c].stage = "deleting", account, Deletions = {},
         Move(c, "cascading", {k \in Calls : Present(k)}, {}),
         UNCHANGED <<database, browser, faults>>
  PROVE  Inv'
<1>1. /\ call' \in [Calls -> Call]
      /\ Others(c) /\ Keeps(c)
      /\ call'[c].stage = "cascading" /\ call'[c].todo = {k \in Calls : Present(k)}
      /\ call'[c].held = {} /\ call'[c].snapshot = {}
  <2>1. TypeOK /\ "cascading" \in Running /\ {k \in Calls : Present(k)} \in SUBSET Calls /\ {} \in SUBSET Calls
    BY DEF Inv, Running
  <2>2. QED
    BY <2>1, MoveDoes
<1>2. TypeOK'
  BY <1>1 DEF Inv, TypeOK, Others, database, browser, Running
<1>3. (Stages /\ Locks)'
  BY <1>1 DEF Inv, Stages, Locks, Others, Keeps, Running
<1>4. (Names /\ Fresh /\ Exchanges)'
  BY <1>1 DEF Inv, Names, Fresh, Exchanges, Others, Keeps, database, browser, Issued, Open, Present, Running
<1>5. (OneOpen /\ DeletedTakesEverySession /\ Past)'
  BY <1>1 DEF Inv, OneOpen, Open, DeletedTakesEverySession, Past, Present, Others, Keeps, database
<1>6. Cascade'
  BY <1>1 DEF Inv, Cascade, Deletions, Present, Others, database
<1>7. (Revocations /\ RevocationEndsWhatItSaw)'
  BY <1>1 DEF Inv, Revocations, RevocationEndsWhatItSaw, Revoker, Usable, Others, Keeps, database
<1>8. QED
  BY <1>2, <1>3, <1>4, <1>5, <1>6, <1>7 DEF Inv

LEMMA TouchKeeps == ASSUME Inv, NEW c \in Calls, TouchRow(c) PROVE Inv'
<1>1. PICK k \in call[c].todo :
        /\ Present(k) => Free(c, k)
        /\ call' \in [Calls -> Call]
        /\ Others(c) /\ Keeps(c)
        /\ call'[c].stage = call[c].stage /\ call'[c].todo = call[c].todo \ {k}
        /\ call'[c].held = IF Present(k) THEN call[c].held \union {k} ELSE call[c].held
        /\ call'[c].snapshot = call[c].snapshot
  BY TouchDoes DEF Inv
<1>2. UNCHANGED <<database, browser, faults>>
  BY DEF TouchRow
<1>3. call[c].stage \in {"revoking", "cascading"}
  BY DEF Inv, Stages
<1>4. TypeOK'
  BY <1>1, <1>2, <1>3 DEF Inv, TypeOK, Others, database, browser, Running
<1>5. Stages'
  BY <1>1, <1>3 DEF Inv, Stages, Others, Keeps
<1>6. Locks'
  BY <1>1 DEF Inv, Locks, Others, Free
<1>7. (Names /\ Fresh /\ Exchanges)'
  BY <1>1, <1>2 DEF Inv, Names, Fresh, Exchanges, Others, Keeps, database, browser, Issued, Open, Present
<1>8. (OneOpen /\ DeletedTakesEverySession /\ Past)'
  BY <1>1, <1>2 DEF Inv, OneOpen, Open, DeletedTakesEverySession, Past, Present, Others, Keeps, database
<1>9. Cascade'
  BY <1>1, <1>2 DEF Inv, Cascade, Present, Others, database
<1>10. Revocations'
  BY <1>1, <1>2 DEF Inv, Revocations, Usable, Present, Others, Keeps, database
<1>11. RevocationEndsWhatItSaw'
  BY <1>1, <1>2 DEF Inv, RevocationEndsWhatItSaw, Revoker, Usable, Others, Keeps, database
<1>12. QED
  BY <1>4, <1>5, <1>6, <1>7, <1>8, <1>9, <1>10, <1>11 DEF Inv

(* A family begins: nothing else has the name of the call that starts it. *)
LEMMA InsertKeeps ==
  ASSUME Inv, NEW c \in Calls, call[c].kind = "login", call[c].stage = "sent",
         Deletions = {}, account, row' = [row EXCEPT ![c] = NewRow(c)], End(c, "ok"),
         UNCHANGED <<account, browser, faults>>
  PROVE  Inv'
<1>1. /\ row' \in [Calls -> Row]
      /\ \A l \in Calls \ {c} : row'[l] = row[l]
      /\ row'[c].family = c /\ row'[c].life = "live" /\ row'[c].used = "no"
      /\ row'[c].revoked = FALSE
  BY Issues DEF Inv
<1>2. /\ call' \in [Calls -> Call]
      /\ Others(c) /\ Keeps(c)
      /\ call'[c].stage = "ok" /\ call'[c].todo = {} /\ call'[c].held = {}
      /\ call'[c].snapshot = call[c].snapshot
  BY EndDoes DEF Inv, Final
<1>3. row[c].life = "none" /\ \A k \in Calls : Issued(k) => row[k].family # c
  BY DEF Inv, Fresh, Names, Issued, Running
<1>4. TypeOK'
  BY <1>1, <1>2 DEF Inv, TypeOK, Others, browser
<1>5. (Stages /\ Locks)'
  BY <1>2 DEF Inv, Stages, Locks, Others, Keeps, Running
<1>6. Names'
  <2>1. \A l \in Calls : Issued(l)' <=> Issued(l) \/ l = c
    BY <1>1, <1>3 DEF Issued
  <2>2. \A l \in Calls : Issued(l)' => row'[l].family \in Calls /\ Issued(row[l].family)'
    BY <1>1, <1>3, <2>1 DEF Inv, Names, Issued
  <2>3. stored' # None => Issued(stored)'
    <3>1. stored' = stored /\ (stored # None => stored \in Calls)
      BY DEF Inv, TypeOK, browser, None, Calls
    <3>2. QED
      BY <2>1, <3>1 DEF Inv, Names, Issued
  <2>4. \A d \in Calls : \A l \in call'[d].snapshot \union call'[d].held : Issued(l)'
    BY <1>2, <2>1 DEF Inv, TypeOK, Call, Names, Others
  <2>5. \A d \in Calls : call'[d].kind \in {"refresh", "logout"} => Issued(call[d].token)'
    BY <1>2, <2>1 DEF Inv, Stages, Names, Others, Keeps, Issued
  <2>6. QED
    BY <2>2, <2>3, <2>4, <2>5 DEF Names
<1>7. Fresh'
  BY <1>1, <1>2 DEF Inv, Fresh, Others, Keeps, Issued, Running
<1>8. Exchanges'
  BY <1>1, <1>2, <1>3 DEF Inv, Stages, Exchanges, Others, Open, Present
<1>9. OneOpen'
  BY <1>1, <1>3 DEF Inv, OneOpen, Open, Present, Issued
<1>10. (DeletedTakesEverySession /\ Cascade)'
  BY <1>1, <1>2 DEF Inv, DeletedTakesEverySession, Cascade, Deletions, Present, Others
<1>11. Past'
  BY <1>1, <1>2, <1>3 DEF Inv, Past, Exchanges, Stages, Open, Present, Others, Issued
<1>12. (Revocations /\ RevocationEndsWhatItSaw)'
  <2>1. \A d \in Calls : \A k \in call[d].snapshot : k \in Calls /\ k # c
    BY <1>3 DEF Inv, TypeOK, Call, Names, Issued
  <2>2. \A d \in Calls : call[d].kind \in {"refresh", "logout"} => call[d].token \in Calls \ {c}
    BY <1>3 DEF Inv, Stages, Names, Issued
  <2>3. QED
    BY <1>1, <1>2, <2>1, <2>2
       DEF Inv, Revocations, RevocationEndsWhatItSaw, Revoker, Usable, Others, Keeps
<1>13. QED
  BY <1>4, <1>5, <1>6, <1>7, <1>8, <1>9, <1>10, <1>11, <1>12 DEF Inv

(* The successor takes the place of the token that was the one open token  *)
(* of its family, and that no one else holds.                              *)
LEMMA ExchangeKeeps == ASSUME Inv, NEW c \in Calls, Exchange(c) PROVE Inv'
<1> DEFINE k == call[c].token
<1>1. /\ call[c].stage = "exchanging" /\ Deletions = {} /\ account
      /\ row' = [row EXCEPT ![k].used = "recent", ![c] = NewRow(row[k].family)]
      /\ End(c, "ok")
      /\ UNCHANGED <<account, browser, faults>>
  BY DEF Exchange
<1>2. /\ call[c].kind = "refresh" /\ call[c].held = {k} /\ k \in Calls /\ Open(k)
      /\ row[c].life = "none"
  BY <1>1 DEF Inv, Stages, Exchanges, Fresh, Issued, Running
<1>3. k \in Calls \ {c} /\ row[k].family \in Calls /\ Issued(row[k].family) /\ row[k].life # "gone"
  BY <1>2 DEF Inv, Names, Open, Present, Issued
<1>4. \A d \in Calls \ {c} : k \notin call[d].held
  BY <1>2 DEF Inv, Locks
<1>5. \A g \in Calls : row[g].life = "gone" => row[g].family # row[k].family
  BY <1>1 DEF Inv, Past
<1> HIDE DEF k
<1>6. /\ row' \in [Calls -> Row]
      /\ \A l \in Calls \ {c, k} : row'[l] = row[l]
      /\ row'[k].family = row[k].family /\ row'[k].life = row[k].life
      /\ row'[k].used = "recent" /\ row'[k].revoked = row[k].revoked
      /\ row'[c].family = row[k].family /\ row'[c].life = "live" /\ row'[c].used = "no"
      /\ row'[c].revoked = FALSE
  BY <1>1, <1>3, Rotates DEF Inv
<1>7. /\ call' \in [Calls -> Call]
      /\ Others(c) /\ Keeps(c)
      /\ call'[c].stage = "ok" /\ call'[c].todo = {} /\ call'[c].held = {}
      /\ call'[c].snapshot = call[c].snapshot
  BY <1>1, EndDoes DEF Inv, Final
<1>8. TypeOK'
  BY <1>1, <1>6, <1>7 DEF Inv, TypeOK, Others, browser
<1>9. (Stages /\ Locks)'
  BY <1>7 DEF Inv, Stages, Locks, Others, Keeps, Running
<1>10. \A l \in Calls : Issued(l)' <=> Issued(l) \/ l = c
  BY <1>2, <1>3, <1>6 DEF Issued
<1>11. \A l \in Calls \ {c} : row'[l].family = row[l].family
  BY <1>6
<1>12. Names'
  <2>1. \A l \in Calls : Issued(l)' => row'[l].family \in Calls /\ Issued(row[l].family)'
    BY <1>3, <1>6, <1>10, <1>11 DEF Inv, Names, Issued
  <2>2. stored' # None => Issued(stored)'
    <3>1. stored' = stored /\ (stored # None => stored \in Calls)
      BY <1>1 DEF Inv, TypeOK, browser, None, Calls
    <3>2. QED
      BY <1>10, <3>1 DEF Inv, Names, Issued
  <2>3. \A d \in Calls : \A l \in call'[d].snapshot \union call'[d].held : Issued(l)'
    BY <1>7, <1>10 DEF Inv, TypeOK, Call, Names, Others
  <2>4. \A d \in Calls : call'[d].kind \in {"refresh", "logout"} => Issued(call[d].token)'
    BY <1>7, <1>10 DEF Inv, Stages, Names, Others, Keeps, Issued
  <2>5. QED
    BY <2>1, <2>2, <2>3, <2>4 DEF Names
<1>13. Fresh'
  BY <1>2, <1>6, <1>7 DEF Inv, Fresh, Others, Keeps, Running, Issued
<1>14. Exchanges'
  <2> SUFFICES ASSUME NEW d \in Calls, call'[d].stage = "exchanging" PROVE Open(call[d].token)'
    BY DEF Exchanges
  <2>1. d # c /\ call'[d] = call[d] /\ Open(call[d].token) /\ call[d].held = {call[d].token}
        /\ call[d].token \in Calls
    BY <1>7 DEF Inv, Exchanges, Stages, Others
  <2>2. call[d].token # k /\ call[d].token # c
    BY <1>2, <1>4, <2>1 DEF Open, Present
  <2>3. QED
    BY <1>6, <2>1, <2>2 DEF Open, Present
<1>15. OneOpen'
  BY <1>2, <1>3, <1>6 DEF Inv, OneOpen, Open, Present
<1>16. (DeletedTakesEverySession /\ Cascade)'
  BY <1>1, <1>7 DEF Inv, DeletedTakesEverySession, Cascade, Deletions, Others
<1>17. Past'
  <2> SUFFICES ASSUME NEW g \in Calls, row'[g].life = "gone"
               PROVE  /\ \A l \in Calls : row'[l].family = row'[g].family => row'[l].life # "live"
                      /\ \A d \in Calls : call'[d].stage = "exchanging"
                                            => row'[call'[d].token].family # row'[g].family
    BY DEF Past
  <2>1. g # c /\ row[g].life = "gone" /\ row'[g] = row[g] /\ row[g].family # row[k].family
    BY <1>3, <1>5, <1>6
  <2>2. \A l \in Calls : row'[l].family = row'[g].family => row'[l].life # "live"
    BY <1>3, <1>6, <2>1 DEF Inv, Past
  <2>3. ASSUME NEW d \in Calls, call'[d].stage = "exchanging"
        PROVE  row'[call'[d].token].family # row'[g].family
    <3>1. call'[d] = call[d] /\ call[d].stage = "exchanging"
      BY <1>7, <2>3 DEF Others
    <3>2. call[d].token \in Calls \ {c}
      BY <1>2, <3>1 DEF Inv, Stages, Exchanges, Open, Present
    <3>3. QED
      BY <1>11, <2>1, <3>1, <3>2 DEF Inv, Past
  <2>4. QED
    BY <2>2, <2>3
<1>18. (Revocations /\ RevocationEndsWhatItSaw)'
  <2>1. \A d \in Calls : \A l \in call[d].snapshot : l \in Calls \ {c}
    BY <1>2 DEF Inv, TypeOK, Call, Names, Issued
  <2>2. \A d \in Calls : call[d].kind \in {"refresh", "logout"} => call[d].token \in Calls \ {c}
    BY <1>2 DEF Inv, Stages, Names, Issued
  <2>3. \A l \in Calls \ {c} : Usable(l)' => Usable(l)
    BY <1>6 DEF Usable
  <2>4. Revocations'
    BY <1>7, <1>11, <2>1, <2>2, <2>3 DEF Inv, Revocations, Others
  <2>5. RevocationEndsWhatItSaw'
    BY <1>2, <1>7, <1>11, <2>1, <2>2, <2>3 DEF Inv, RevocationEndsWhatItSaw, Revoker, Others, Keeps
  <2>6. QED
    BY <2>4, <2>5
<1>19. QED
  BY <1>8, <1>9, <1>12, <1>13, <1>14, <1>15, <1>16, <1>17, <1>18 DEF Inv

LEMMA RevokedKeeps == ASSUME Inv, NEW c \in Calls, CommitRevocation(c) PROVE Inv'
<1>1. /\ call[c].stage = "revoking" /\ call[c].todo = {}
      /\ End(c, Outcome(c)) /\ UNCHANGED <<account, browser, faults>>
      /\ call[c].kind \in {"refresh", "logout", "delete"}
  BY DEF Inv, Stages, CommitRevocation
<1>2. /\ Outcome(c) \in {"replayed", "ok", "deleting"}
      /\ Outcome(c) = "ok" => call[c].kind = "logout"
      /\ Outcome(c) = "replayed" => call[c].kind = "refresh"
      /\ Outcome(c) = "deleting" => call[c].kind = "delete"
  BY <1>1 DEF Outcome
<1>3. /\ row' \in [Calls -> Row]
      /\ \A k \in Calls : /\ row'[k].family = row[k].family /\ row'[k].life = row[k].life
                          /\ row'[k].used = row[k].used
                          /\ k \in call[c].held => row'[k].revoked = TRUE
                          /\ k \notin call[c].held => row'[k].revoked = row[k].revoked
  BY Revokes DEF Inv, CommitRevocation
<1>4. /\ call' \in [Calls -> Call]
      /\ Others(c) /\ Keeps(c)
      /\ call'[c].stage = Outcome(c) /\ call'[c].todo = {} /\ call'[c].held = {}
      /\ call'[c].snapshot = call[c].snapshot
  <2>1. TypeOK /\ Outcome(c) \in Running \union Final
    BY <1>2 DEF Inv, Running, Final
  <2>2. QED
    BY <1>1, <2>1, EndDoes
<1> HIDE DEF Outcome
<1>5. TypeOK'
  BY <1>1, <1>3, <1>4 DEF Inv, TypeOK, Others, browser
<1>6. (Stages /\ Locks)'
  BY <1>1, <1>2, <1>4 DEF Inv, Stages, Locks, Others, Keeps, Running
<1>7. Names'
  <2>1. \A k \in Calls : Issued(k)' <=> Issued(k)
    BY <1>3 DEF Issued
  <2>2. \A k \in Calls : Issued(k)' => row'[k].family \in Calls /\ Issued(row[k].family)'
    BY <1>3 DEF Inv, Names, Issued
  <2>3. stored' # None => Issued(stored)'
    <3>1. stored' = stored /\ (stored # None => stored \in Calls)
      BY <1>1 DEF Inv, TypeOK, browser, None, Calls
    <3>2. QED
      BY <2>1, <3>1 DEF Inv, Names, Issued
  <2>4. \A d \in Calls : \A l \in call'[d].snapshot \union call'[d].held : Issued(l)'
    BY <1>4, <2>1 DEF Inv, TypeOK, Call, Names, Others
  <2>5. \A d \in Calls : call'[d].kind \in {"refresh", "logout"} => Issued(call[d].token)'
    BY <1>4, <2>1 DEF Inv, Stages, Names, Others, Keeps, Issued
  <2>6. QED
    BY <1>3, <1>4, <2>2, <2>3, <2>4, <2>5 DEF Names, Others, Keeps
<1>8. Fresh'
  BY <1>1, <1>2, <1>3, <1>4 DEF Inv, Fresh, Others, Keeps, Running, Issued
<1>9. Exchanges'
  <2> SUFFICES ASSUME NEW d \in Calls, call'[d].stage = "exchanging" PROVE Open(call[d].token)'
    BY <1>4 DEF Exchanges, Others, Keeps
  <2>1. /\ d # c /\ call'[d] = call[d] /\ Open(call[d].token)
        /\ call[d].held = {call[d].token} /\ call[d].token \in Calls
    BY <1>2, <1>4 DEF Inv, Exchanges, Stages, Others
  <2>2. call[d].token \notin call[c].held
    BY <2>1 DEF Inv, Locks
  <2>3. QED
    BY <1>3, <2>1, <2>2 DEF Open, Present
<1>10. OneOpen'
  BY <1>3 DEF Inv, OneOpen, Open, Present
<1>11. (DeletedTakesEverySession /\ Cascade)'
  BY <1>1, <1>2, <1>3, <1>4 DEF Inv, DeletedTakesEverySession, Cascade, Present, Others
<1>12. Past'
  BY <1>2, <1>3, <1>4 DEF Inv, Stages, Past, Others, Keeps
<1>13. (Revocations /\ RevocationEndsWhatItSaw)'
  <2>1. \A d \in Calls : \A l \in call[d].snapshot : l \in Calls
    BY DEF Inv, TypeOK, Call
  <2>2. \A d \in Calls : call[d].kind \in {"refresh", "logout"} => call[d].token \in Calls
    BY DEF Inv, Stages
  <2>3. \A l \in Calls : Usable(l)' => Usable(l) /\ l \notin call[c].held
    BY <1>3 DEF Usable
  <2>4. Revocations'
    BY <1>2, <1>3, <1>4, <2>1, <2>2, <2>3 DEF Inv, Revocations, Others, Keeps
  <2>5. RevocationEndsWhatItSaw'
    <3> SUFFICES ASSUME NEW d \in Calls, Revoker(d)', NEW l \in call'[d].snapshot,
                        row'[l].family = row'[call'[d].token].family
                 PROVE  ~ Usable(l)'
      BY DEF RevocationEndsWhatItSaw
    <3>1. call'[d].kind \in {"refresh", "logout"} /\ call'[d].kind = call[d].kind
          /\ call'[d].token = call[d].token /\ call'[d].snapshot = call[d].snapshot
      BY <1>4 DEF Revoker, Others, Keeps
    <3>2. row[l].family = row[call[d].token].family
      BY <1>3, <2>1, <2>2, <3>1
    <3>3. CASE d = c
      BY <1>1, <2>1, <2>3, <3>1, <3>2, <3>3 DEF Inv, Revocations
    <3>4. CASE d # c
      BY <1>4, <2>1, <2>3, <3>1, <3>2, <3>4 DEF Inv, RevocationEndsWhatItSaw, Revoker, Others
    <3>5. QED
      BY <3>3, <3>4
  <2>6. QED
    BY <2>4, <2>5
<1>14. QED
  BY <1>5, <1>6, <1>7, <1>8, <1>9, <1>10, <1>11, <1>12, <1>13 DEF Inv

LEMMA DeletedKeeps == ASSUME Inv, NEW c \in Calls, CommitDeletion(c) PROVE Inv'
<1>1. /\ call[c].stage = "cascading" /\ call[c].todo = {} /\ call[c].kind = "delete"
      /\ account' = FALSE /\ End(c, "ok") /\ UNCHANGED <<browser, faults>>
  BY DEF Inv, Stages, CommitDeletion
<1>2. /\ row' \in [Calls -> Row]
      /\ \A k \in Calls : /\ row'[k].family = row[k].family /\ row'[k].used = row[k].used
                          /\ row'[k].revoked = row[k].revoked
                          /\ row'[k].life = IF k \in call[c].held THEN "gone" ELSE row[k].life
  BY Removes DEF Inv, CommitDeletion
<1>3. /\ call' \in [Calls -> Call]
      /\ Others(c) /\ Keeps(c)
      /\ call'[c].stage = "ok" /\ call'[c].todo = {} /\ call'[c].held = {}
      /\ call'[c].snapshot = call[c].snapshot
  BY <1>1, EndDoes DEF Inv, Final
<1>4. \A k \in Calls : Present(k) => k \in call[c].held
  BY <1>1 DEF Inv, Cascade
<1>5. \A k \in Calls : row'[k].life \in {"none", "gone"} /\ (row'[k].life = "none" => row[k].life = "none")
  BY <1>2, <1>4 DEF Inv, TypeOK, Row, Present
<1>6. \A d \in Calls : call[d].stage # "exchanging" /\ call'[d].stage # "exchanging"
  <2>1. \A d \in Calls : call[d].stage = "exchanging" => d # c /\ call[d].token \in Calls
                           /\ Present(call[d].token) /\ call[d].held = {call[d].token}
    BY <1>1 DEF Inv, Exchanges, Stages, Open
  <2>2. QED
    BY <1>3, <1>4, <2>1 DEF Inv, Locks, Others
<1>7. TypeOK'
  BY <1>1, <1>2, <1>3 DEF Inv, TypeOK, Others, browser
<1>8. (Stages /\ Locks)'
  BY <1>1, <1>3 DEF Inv, Stages, Locks, Others, Keeps, Running
<1>9. \A k \in Calls : Issued(k) => Issued(k)'
  BY <1>2 DEF Issued
<1>10. Names'
  <2>1. \A k \in Calls : Issued(k)' => row'[k].family \in Calls /\ Issued(row[k].family)'
    BY <1>2, <1>9 DEF Inv, Names, Issued
  <2>2. stored' # None => Issued(stored)'
    <3>1. stored' = stored /\ (stored # None => stored \in Calls)
      BY <1>1 DEF Inv, TypeOK, browser, None, Calls
    <3>2. QED
      BY <1>9, <3>1 DEF Inv, Names, Issued
  <2>3. \A d \in Calls : \A l \in call'[d].snapshot \union call'[d].held : Issued(l)'
    BY <1>3, <1>9 DEF Inv, TypeOK, Call, Names, Others
  <2>4. \A d \in Calls : call'[d].kind \in {"refresh", "logout"} => Issued(call[d].token)'
    BY <1>3, <1>9 DEF Inv, Stages, Names, Others, Keeps, Issued
  <2>5. QED
    BY <1>3, <2>1, <2>2, <2>3, <2>4 DEF Names, Others, Keeps
<1>11. Fresh'
  <2>1. \A k \in Calls : row[k].life = "none" => row'[k].life = "none"
    BY <1>2 DEF Inv, Names, Issued
  <2>2. QED
    BY <1>1, <1>3, <1>9, <2>1 DEF Inv, Fresh, Others, Keeps, Running, Issued
<1>12. (Exchanges /\ OneOpen /\ DeletedTakesEverySession)'
  BY <1>5, <1>6 DEF Exchanges, OneOpen, Open, DeletedTakesEverySession, Present
<1>13. Cascade'
  BY <1>1, <1>3 DEF Inv, Cascade, Others
<1>14. (Past /\ Revocations /\ RevocationEndsWhatItSaw)'
  <2>1. \A d \in Calls : call'[d].snapshot \subseteq Calls
    BY <1>3 DEF Call
  <2>2. QED
    BY <1>5, <1>6, <2>1 DEF Past, Revocations, RevocationEndsWhatItSaw, Usable
<1>15. QED
  BY <1>7, <1>8, <1>10, <1>11, <1>12, <1>13, <1>14 DEF Inv

LEMMA LapseKeeps ==
  ASSUME Inv, NEW k \in Calls, GraceEnds(k) \/ Expire(k) \/ DeleteExpiredTokens(k)
  PROVE  Inv'
<1>1. /\ RowChanges(k) /\ row'[k].revoked = row[k].revoked
      /\ row'[k].life = "none" <=> row[k].life = "none"
      /\ row'[k].life = "live" => row[k].life = "live"
      /\ Present(k)' => Present(k)
      /\ row'[k].used = "no" <=> row[k].used = "no"
  BY Lapses DEF Inv
<1>2. UNCHANGED <<account, call, browser, faults>>
  BY DEF GraceEnds, Expire, DeleteExpiredTokens
<1>3. \A l \in Calls : Issued(l)' <=> Issued(l)
  BY <1>1 DEF RowChanges, Issued
<1>4. \A l \in Calls : (Open(l)' => Open(l)) /\ (Usable(l)' => Usable(l)) /\ (Present(l)' => Present(l))
                         /\ row'[l].family = row[l].family
  BY <1>1 DEF RowChanges, Open, Usable, Present
<1>5. TypeOK'
  BY <1>1, <1>2 DEF Inv, TypeOK, RowChanges, browser
<1>6. (Stages /\ Locks)'
  BY <1>2 DEF Inv, Stages, Locks
<1>7. Names'
  <2>1. \A l \in Calls : Issued(l)' => row'[l].family \in Calls /\ Issued(row[l].family)'
    BY <1>3, <1>4 DEF Inv, Names, Issued
  <2>2. stored' # None => Issued(stored)'
    <3>1. stored' = stored /\ (stored # None => stored \in Calls)
      BY <1>2 DEF Inv, TypeOK, browser, None, Calls
    <3>2. QED
      BY <1>3, <3>1 DEF Inv, Names, Issued
  <2>3. \A d \in Calls : \A l \in call'[d].snapshot \union call'[d].held : Issued(l)'
    BY <1>2, <1>3 DEF Inv, TypeOK, Call, Names
  <2>4. \A d \in Calls : call'[d].kind \in {"refresh", "logout"} => Issued(call[d].token)'
    BY <1>2, <1>3 DEF Inv, Stages, Names, Issued
  <2>5. QED
    BY <2>1, <2>2, <2>3, <2>4 DEF Names
<1>8. Fresh'
  BY <1>2, <1>3 DEF Inv, Fresh
<1>9. Exchanges'
  <2> SUFFICES ASSUME NEW d \in Calls, call[d].stage = "exchanging" PROVE Open(call[d].token)'
    BY <1>2 DEF Exchanges
  <2>1. Open(call[d].token) /\ call[d].held = {call[d].token} /\ call[d].token \in Calls
    BY DEF Inv, Exchanges, Stages
  <2>2. call[d].token # k \/ Expire(k)
    BY <2>1 DEF Open, GraceEnds, DeleteExpiredTokens, Running
  <2>3. CASE call[d].token # k
    BY <1>1, <1>2, <2>1, <2>3 DEF Open, Present, RowChanges
  <2>4. CASE call[d].token = k /\ Expire(k)
    <3>1. row'[k].life = "expired"
      BY <2>4 DEF Inv, TypeOK, Expire, Row
    <3>2. QED
      BY <1>1, <1>2, <2>1, <2>4, <3>1 DEF Open, Present
  <2>5. QED
    BY <2>2, <2>3, <2>4
<1>10. OneOpen'
  BY <1>4 DEF Inv, OneOpen
<1>11. (DeletedTakesEverySession /\ Cascade)'
  BY <1>2, <1>4 DEF Inv, DeletedTakesEverySession, Cascade
<1>12. Past'
  <2> SUFFICES ASSUME NEW g \in Calls, row'[g].life = "gone"
               PROVE  /\ \A l \in Calls : row[l].family = row[g].family => row'[l].life # "live"
                      /\ \A d \in Calls : call[d].stage = "exchanging"
                                            => row[call[d].token].family # row[g].family
    <3>1. \A d \in Calls : call[d].stage = "exchanging" => call[d].token \in Calls
      BY DEF Inv, Stages
    <3>2. QED
      BY <1>2, <1>4, <3>1 DEF Past
  <2>1. \A l \in Calls : row'[l].life = "live" => row[l].life = "live"
    BY <1>1 DEF RowChanges
  <2>2. CASE row[g].life = "gone"
    BY <2>1, <2>2 DEF Inv, Past
  <2>3. CASE row[g].life # "gone"
    <3>1. g = k
      BY <1>1, <2>3 DEF RowChanges
    <3>2. ~ GraceEnds(k)
      <4>1. GraceEnds(k) => row'[k].life = row[k].life
        BY DEF GraceEnds, Inv, TypeOK, Row
      <4>2. QED
        BY <2>3, <3>1, <4>1
    <3>3. ~ Expire(k)
      <4>1. Expire(k) => row'[k].life = "expired"
        BY DEF Expire, Inv, TypeOK, Row
      <4>2. QED
        BY <3>1, <4>1
    <3>4. DeleteExpiredTokens(k)
      BY <3>2, <3>3
    <3>5. \A d \in Calls : call[d].stage = "exchanging" => call[d].token \in Calls
      BY DEF Inv, Stages
    <3>6. QED
      BY <2>1, <3>1, <3>4, <3>5 DEF DeleteExpiredTokens, Running, None, Calls
  <2>4. QED
    BY <2>2, <2>3
<1>13. (Revocations /\ RevocationEndsWhatItSaw)'
  <2>1. \A d \in Calls : call[d].snapshot \subseteq Calls
    BY DEF Inv, TypeOK, Call
  <2>2. \A d \in Calls : call[d].kind \in {"refresh", "logout"} => call[d].token \in Calls
    BY DEF Inv, Stages
  <2>3. QED
    BY <1>2, <1>4, <2>1, <2>2 DEF Inv, Revocations, RevocationEndsWhatItSaw, Revoker
<1>14. QED
  BY <1>5, <1>6, <1>7, <1>8, <1>9, <1>10, <1>11, <1>12, <1>13 DEF Inv
-----------------------------------------------------------------------------
(* THE STEPS *)

LEMMA UseKeeps == ASSUME Inv, NEW t \in Tabs, Use(t) PROVE Inv'
<1>1. CASE SignIn(t)
  <2>1. 0 \in 0 .. MaxCalls /\ "login" \in Kinds \ {"none"}
    BY DEF Kinds
  <2>2. Send(t, "login", 0) /\ UNCHANGED <<database, faults>> /\ UNCHANGED browser
    BY <1>1 DEF SignIn, None
  <2>3. stored' = stored /\ session' \in [Tabs -> BOOLEAN]
    BY <2>2 DEF Inv, TypeOK, browser
  <2>4. QED
    BY <2>1, <2>2, <2>3, SendKeeps
<1>2. CASE RefreshSession(t)
  <2>1. /\ stored # None /\ Send(t, "refresh", stored)
        /\ UNCHANGED <<database, faults>> /\ UNCHANGED browser
    BY <1>2 DEF RefreshSession
  <2>2. /\ stored \in 0 .. MaxCalls /\ "refresh" \in Kinds \ {"none"}
        /\ stored' = stored /\ session' \in [Tabs -> BOOLEAN]
    BY <2>1 DEF Inv, TypeOK, browser, Kinds
  <2>3. QED
    BY <2>1, <2>2, SendKeeps
<1>3. CASE SignOut(t)
  <2>1. ClearSession(t) /\ UNCHANGED <<database, faults>>
    BY <1>3 DEF SignOut
  <2>2. stored' = None /\ session' \in [Tabs -> BOOLEAN] /\ stored \in 0 .. MaxCalls
        /\ faults \in 0 .. MaxFaults
    BY <2>1 DEF ClearSession, Inv, TypeOK
  <2>3. CASE stored # None /\ Send(t, "logout", stored)
    <3>1. "logout" \in Kinds \ {"none"}
      BY DEF Kinds
    <3>2. QED
      BY <2>1, <2>2, <2>3, <3>1, SendKeeps
  <2>4. CASE UNCHANGED call
    <3>1. Untouched
      BY <2>4 DEF Untouched, Keeps, Inv, TypeOK
    <3>2. QED
      BY <2>1, <2>2, <3>1, HearingKeeps
  <2>5. QED
    BY <1>3, <2>3, <2>4 DEF SignOut
<1>4. CASE DeleteAccount(t)
  <2>1. 0 \in 0 .. MaxCalls /\ "delete" \in Kinds \ {"none"}
    BY DEF Kinds
  <2>2. Send(t, "delete", 0) /\ UNCHANGED <<database, faults>> /\ UNCHANGED browser
    BY <1>4 DEF DeleteAccount, None
  <2>3. stored' = stored /\ session' \in [Tabs -> BOOLEAN]
    BY <2>2 DEF Inv, TypeOK, browser
  <2>4. QED
    BY <2>1, <2>2, <2>3, SendKeeps
<1>5. CASE Reload(t)
  <2>1. Untouched
    BY <1>5, ReloadDoes DEF Inv
  <2>2. UNCHANGED <<database, stored, faults>> /\ session' \in [Tabs -> BOOLEAN]
    BY <1>5 DEF Reload, Inv, TypeOK
  <2>3. faults' \in 0 .. MaxFaults
    BY <2>2 DEF Inv, TypeOK
  <2>4. QED
    BY <2>1, <2>2, <2>3, HearingKeeps
<1>6. QED
  BY <1>1, <1>2, <1>3, <1>4, <1>5 DEF Use

LEMMA AnswerKeeps == ASSUME Inv, NEW c \in Calls, Answer(c) \/ LoseAnswer(c) PROVE Inv'
<1>1. Heard(c) /\ call[c].waiting \in Tabs /\ UNCHANGED database
  BY DEF Answer, LoseAnswer
<1>2. Untouched
  BY <1>1, HeardDoes DEF Inv
<1>3. faults' \in 0 .. MaxFaults
  BY DEF Answer, LoseAnswer, Inv, TypeOK
<1>4. call[c].waiting \in Tabs
  BY <1>1
<1>5. ClearSession(call[c].waiting) => stored' = None /\ session' \in [Tabs -> BOOLEAN]
  BY <1>4 DEF ClearSession, Inv, TypeOK
<1>6. UNCHANGED browser => stored' = stored /\ session' \in [Tabs -> BOOLEAN]
  BY DEF browser, Inv, TypeOK
<1>7. OnError(c) => stored' \in {stored, None} /\ session' \in [Tabs -> BOOLEAN]
  BY <1>5, <1>6 DEF OnError
<1>8. ASSUME call[c].stage = "ok", call[c].kind # "delete", StartSession(c)
      PROVE  stored' = c /\ Issued(c) /\ session' \in [Tabs -> BOOLEAN]
  <2>1. call[c].kind \in {"login", "refresh"}
    BY <1>1, <1>8 DEF Inv, TypeOK, Call, Kinds, Stages
  <2>2. QED
    BY <1>4, <1>8, <2>1 DEF Inv, TypeOK, Fresh, StartSession
<1>9. stored' \in {stored, None} \union {k \in Calls : Issued(k)} /\ session' \in [Tabs -> BOOLEAN]
  BY <1>5, <1>7, <1>8 DEF Answer, LoseAnswer
<1>10. QED
  BY <1>1, <1>2, <1>3, <1>9, HearingKeeps

LEMMA FailKeeps == ASSUME Inv, NEW c \in Calls, Fail(c) PROVE Inv'
<1>1. call[c].stage \in Running /\ End(c, "error") /\ UNCHANGED <<database, browser>>
  BY DEF Fail
<1>2. faults' \in 0 .. MaxFaults
  BY DEF Fail, Inv, TypeOK
<1>3. QED
  BY <1>1, <1>2, EndKeeps

LEMMA UsableIsOpen == \A k : Usable(k) => Open(k)
BY DEF Usable, Open, Present

LEMMA LockKeeps == ASSUME Inv, NEW c \in Calls, LockToken(c) PROVE Inv'
<1> DEFINE k == call[c].token
<1>1. /\ call[c].kind = "refresh" /\ call[c].stage = "sent" /\ k \in Calls
      /\ UNCHANGED <<database, browser, faults>>
  BY DEF LockToken, Inv, Stages
<1>2. faults' \in 0 .. MaxFaults /\ call[c].stage \in Running
  BY <1>1 DEF Inv, TypeOK, Running
<1>3. \/ End(c, "refused") \/ End(c, "rotated")
      \/ Present(k) /\ Free(c, k) /\ Move(c, "revoking", InFamily(row[k].family), {k})
      \/ /\ Present(k) /\ Free(c, k) /\ row[k].used = "no" /\ ~ Refused(k)
         /\ Move(c, "exchanging", {}, {k})
  BY DEF LockToken, Passes
<1>4. CASE End(c, "refused") \/ End(c, "rotated")
  BY <1>1, <1>2, <1>4, EndKeeps
<1>5. CASE Present(k) /\ Free(c, k) /\ Move(c, "revoking", InFamily(row[k].family), {k})
  <2> DEFINE family == InFamily(row[k].family)
             presented == {k}
  <2>1. family \in SUBSET Calls /\ presented \in SUBSET Calls
    BY <1>1 DEF InFamily, Unrevoked
  <2>2. \A l \in presented : Free(c, l) /\ Present(l)
    BY <1>5
  <2>3. \A l \in Calls : row[l].family = row[call[c].token].family /\ Usable(l) => l \in family
    BY DEF InFamily, Unrevoked, Usable, Present
  <2>4. Move(c, "revoking", family, presented)
    BY <1>5
  <2> HIDE DEF family, presented
  <2>5. QED
    BY <1>1, <2>1, <2>2, <2>3, <2>4, RevokingKeeps
<1>6. CASE /\ Present(k) /\ Free(c, k) /\ row[k].used = "no" /\ ~ Refused(k)
           /\ Move(c, "exchanging", {}, {k})
  <2>1. Open(k) /\ row[k].life = "live"
    BY <1>6, UsableIsOpen DEF Refused, Usable
  <2> HIDE DEF k
  <2>2. k = call[c].token
    BY DEF k
  <2>3. QED
    BY <1>1, <1>6, <2>1, <2>2, PresentedKeeps
<1>7. QED
  BY <1>3, <1>4, <1>5, <1>6

LEMMA BeginKeeps ==
  ASSUME Inv, NEW c \in Calls, RevokeRefreshToken(c) \/ RevokeAllForUser(c) \/ DeleteUser(c)
  PROVE  Inv'
<1>1. UNCHANGED <<database, browser, faults>> /\ faults' \in 0 .. MaxFaults
  BY DEF RevokeRefreshToken, RevokeAllForUser, DeleteUser, Inv, TypeOK
<1>2. CASE RevokeRefreshToken(c)
  <2> DEFINE k == call[c].token
             todo == IF Present(k) THEN InFamily(row[k].family) ELSE {}
             held == {}
  <2>1. call[c].kind = "logout" /\ call[c].stage = "sent" /\ Move(c, "revoking", todo, held)
    BY <1>2 DEF RevokeRefreshToken
  <2>2. k \in Calls /\ Issued(k)
    BY <2>1 DEF Inv, Stages, Names
  <2>3. todo \in SUBSET Calls /\ held \in SUBSET Calls
        /\ \A l \in held : Free(c, l) /\ Present(l)
    BY DEF InFamily, Unrevoked
  <2>4. \A l \in Calls : row[l].family = row[call[c].token].family /\ Usable(l) => l \in todo
    <3>1. CASE Present(k)
      BY <3>1 DEF InFamily, Unrevoked, Usable, Present
    <3>2. CASE ~ Present(k)
      <4>1. row[k].life = "gone"
        BY <2>2, <3>2 DEF Inv, TypeOK, Row, Issued, Present
      <4>2. QED
        BY <2>2, <4>1 DEF Inv, Past, Usable
    <3>3. QED
      BY <3>1, <3>2
  <2> HIDE DEF todo, held
  <2>5. QED
    BY <1>1, <2>1, <2>3, <2>4, RevokingKeeps
<1>3. CASE RevokeAllForUser(c)
  <2>1. call[c].kind = "delete" /\ call[c].stage = "sent" /\ call[c].stage \in Running
    BY <1>3 DEF RevokeAllForUser, Running
  <2>2. CASE Move(c, "revoking", Unrevoked, {})
    <3> DEFINE held == {}
    <3>1. Unrevoked \in SUBSET Calls /\ held \in SUBSET Calls
          /\ \A l \in held : Free(c, l) /\ Present(l)
      BY DEF Unrevoked
    <3>2. Move(c, "revoking", Unrevoked, held)
      BY <2>2
    <3> HIDE DEF held
    <3>3. QED
      BY <1>1, <2>1, <3>1, <3>2, RevokingKeeps
  <2>3. CASE End(c, "refused")
    BY <1>1, <2>1, <2>3, EndKeeps
  <2>4. QED
    BY <1>3, <2>2, <2>3 DEF RevokeAllForUser
<1>4. CASE DeleteUser(c)
  <2>1. call[c].stage = "deleting" /\ call[c].stage \in Running /\ Deletions = {}
    BY <1>4 DEF DeleteUser, Running
  <2>2. CASE account /\ Move(c, "cascading", {k \in Calls : Present(k)}, {})
    BY <1>1, <2>1, <2>2, DeletingKeeps
  <2>3. CASE End(c, "refused")
    BY <1>1, <2>1, <2>3, EndKeeps
  <2>4. QED
    BY <1>4, <2>2, <2>3 DEF DeleteUser
<1>5. QED
  BY <1>2, <1>3, <1>4

LEMMA VictimKeeps == ASSUME Inv, NEW c \in Calls, DeadlockVictim(c) PROVE Inv'
<1>1. End(c, "error") /\ UNCHANGED <<database, browser, faults>> /\ faults' \in 0 .. MaxFaults
  BY DEF DeadlockVictim, Inv, TypeOK
<1>2. PICK d \in Calls : WaitsFor(c, d)
  BY DEF DeadlockVictim, Deadlocks, Stuck
<1>3. call[c].stage \in Running
  BY <1>2 DEF WaitsFor, Inv, Stages, Running
<1>4. QED
  BY <1>1, <1>3, EndKeeps

LEMMA ServeKeeps == ASSUME Inv, NEW c \in Calls, Serve(c) PROVE Inv'
<1>1. CASE InsertSession(c)
  <2>1. /\ call[c].kind = "login" /\ call[c].stage = "sent" /\ Deletions = {}
        /\ UNCHANGED <<account, browser, faults>> /\ call[c].stage \in Running
    BY <1>1 DEF InsertSession, Running
  <2>2. CASE account /\ row' = [row EXCEPT ![c] = NewRow(c)] /\ End(c, "ok")
    BY <2>1, <2>2, InsertKeeps
  <2>3. CASE End(c, "refused") /\ UNCHANGED row
    <3>1. UNCHANGED <<database, browser>> /\ faults' \in 0 .. MaxFaults
      BY <2>1, <2>3 DEF database, browser, Inv, TypeOK
    <3>2. QED
      BY <2>1, <2>3, <3>1, EndKeeps
  <2>4. QED
    BY <1>1, <2>2, <2>3 DEF InsertSession
<1>2. QED
  BY <1>1, LockKeeps, ExchangeKeeps, BeginKeeps, TouchKeeps, RevokedKeeps, DeletedKeeps, VictimKeeps
     DEF Serve

LEMMA StepKeeps == Inv /\ [Next]_vars => Inv'
<1> SUFFICES ASSUME Inv, [Next]_vars PROVE Inv'
  OBVIOUS
<1>1. CASE UNCHANGED vars
  <2>1. Untouched
    BY <1>1 DEF vars, Untouched, Keeps, Inv, TypeOK
  <2>2. /\ UNCHANGED database /\ stored' = stored
        /\ session' \in [Tabs -> BOOLEAN] /\ faults' \in 0 .. MaxFaults
    BY <1>1 DEF vars, database, Inv, TypeOK
  <2>3. QED
    BY <2>1, <2>2, HearingKeeps
<1>2. CASE Next
  BY <1>2, UseKeeps, ServeKeeps, AnswerKeeps, FailKeeps, LapseKeeps DEF Next
<1>3. QED
  BY <1>1, <1>2
-----------------------------------------------------------------------------
(* WHERE USABLE TOKENS COME FROM *)

(* A token that can be exchanged after a step could be before it, or       *)
(* begins a family, or succeeds the token of an exchange.                  *)
LEMMA Renewal ==
  ASSUME Inv, [Next]_vars, NEW k \in Calls, Usable(k)'
  PROVE  \/ Usable(k) /\ row'[k].family = row[k].family
         \/ row'[k].family \in Calls /\ ~ Issued(row'[k].family)
         \/ \E c \in Calls : Exchanging(c) /\ row[call[c].token].family = row'[k].family
<1>1. CASE UNCHANGED row
  BY <1>1 DEF Usable
<1>2. ASSUME NEW c \in Calls, InsertSession(c)
      PROVE  row'[k] = row[k] \/ (row'[k].family = k /\ ~ Issued(k))
  <2>1. CASE row' = [row EXCEPT ![c] = NewRow(c)]
    <3>1. call[c].stage = "sent"
      BY <1>2 DEF InsertSession
    <3>2. ~ Issued(c) /\ row'[c].family = c /\ \A l \in Calls \ {c} : row'[l] = row[l]
      BY <2>1, <3>1, Issues DEF Inv, Fresh, Running
    <3>3. QED
      BY <3>2 DEF Issued
  <2>2. CASE UNCHANGED row
    BY <2>2
  <2>3. QED
    BY <1>2, <2>1, <2>2 DEF InsertSession
<1>3. ASSUME NEW c \in Calls, Exchange(c)
      PROVE  \/ row'[k] = row[k]
             \/ Exchanging(c) /\ row[call[c].token].family = row'[k].family
  <2> DEFINE t == call[c].token
  <2>1. /\ call[c].stage = "exchanging"
        /\ row' = [row EXCEPT ![t].used = "recent", ![c] = NewRow(row[t].family)]
    BY <1>3 DEF Exchange
  <2>2. t \in Calls /\ Open(t) /\ ~ Issued(c)
    BY <2>1 DEF Inv, Stages, Exchanges, Fresh, Running
  <2>3. t \in Calls \ {c} /\ row[t].family \in Calls /\ Exchanging(c)
    BY <2>1, <2>2 DEF Inv, Names, Open, Present, Issued, Exchanging
  <2>4. c \in Calls /\ TypeOK
    BY DEF Inv
  <2> HIDE DEF t
  <2>5. /\ \A l \in Calls \ {c, t} : row'[l] = row[l]
        /\ row'[t].family = row[t].family /\ row'[c].family = row[t].family
    BY <2>1, <2>3, <2>4, Rotates
  <2>6. QED
    BY <2>3, <2>5 DEF t
<1>4. ASSUME NEW c \in Calls, CommitRevocation(c)
      PROVE  row'[k].family = row[k].family /\ (Usable(k)' => Usable(k))
  BY <1>4, Revokes DEF Inv, CommitRevocation, Usable
<1>5. ASSUME NEW c \in Calls, CommitDeletion(c)
      PROVE  row'[k].family = row[k].family /\ (Usable(k)' => Usable(k))
  BY <1>5, Removes DEF Inv, CommitDeletion, Usable
<1>6. ASSUME NEW l \in Calls, GraceEnds(l) \/ Expire(l) \/ DeleteExpiredTokens(l)
      PROVE  row'[k].family = row[k].family /\ (Usable(k)' => Usable(k))
  BY <1>6, Lapses DEF Inv, RowChanges, Usable
<1>7. CASE Next /\ row' # row
  <2>1. \/ \E c \in Calls : \/ InsertSession(c) \/ Exchange(c)
                            \/ CommitRevocation(c) \/ CommitDeletion(c)
        \/ \E l \in Calls : GraceEnds(l) \/ Expire(l) \/ DeleteExpiredTokens(l)
    BY <1>7 DEF Next, Use, Serve, SignIn, RefreshSession, SignOut, DeleteAccount, Reload, LockToken,
                RevokeRefreshToken, RevokeAllForUser, DeleteUser, TouchRow, DeadlockVictim, Fail,
                Answer, LoseAnswer, database
  <2>2. row'[k] = row[k] => Usable(k) /\ row'[k].family = row[k].family
    BY DEF Usable
  <2>3. QED
    BY <1>2, <1>3, <1>4, <1>5, <1>6, <1>7, <2>1, <2>2
<1>8. QED
  BY <1>1, <1>7 DEF vars
-----------------------------------------------------------------------------
(* THE THEOREMS *)

(* The invariant that carries every result below. *)
THEOREM Invariance == Spec => []Inv
BY InitInv, StepKeeps, PTL DEF Spec

(* Records keep their types and only a running transaction holds a lock:   *)
(* every way a call can end gives up what it locked (service.go).          *)
THEOREM TypeCorrect == Spec => []TypeOK
<1>1. Inv => TypeOK
  BY DEF Inv
<1>2. QED
  BY <1>1, Invariance, PTL

(* For any number of tabs and calls, the rotation of RefreshToken under    *)
(* SELECT ... FOR UPDATE never leaves two tokens of a family to exchange.  *)
THEOREM SessionNeverSplits == Spec => []OneUsableToken
<1>1. Inv => OneUsableToken
  BY UsableIsOpen DEF Inv, OneOpen, OneUsableToken
<1>2. QED
  BY <1>1, Invariance, PTL

(* A revocation, by Logout or for a replay, ends all that it could see     *)
(* when it began, whatever it waited for while it touched the rows.        *)
THEOREM RevocationIsComplete == Spec => []RevocationEndsWhatItSaw
<1>1. Inv => RevocationEndsWhatItSaw
  BY DEF Inv
<1>2. QED
  BY <1>1, Invariance, PTL

(* DeleteAccount leaves no token behind, those that were being issued      *)
(* while it ran included: the foreign key and the cascade see to it.       *)
THEOREM DeletionIsComplete == Spec => []DeletedTakesEverySession
<1>1. Inv => DeletedTakesEverySession
  BY DEF Inv
<1>2. QED
  BY <1>1, Invariance, PTL

(* A session that ended stays ended: no late call, retry or replay finds   *)
(* a way to a new token of its family.                                     *)
THEOREM EndedForGood == Spec => EndedStaysEnded
<1>1. Inv /\ [Next]_vars =>
        \A f \in Calls :
          /\ row[f].life # "none"
          /\ \A k \in Calls : row[k].family = f => ~ Usable(k)
          /\ \A c \in Calls : Exchanging(c) => row[call[c].token].family # f
          => \A k \in Calls : row'[k].family = f => ~ Usable(k)'
  <2> SUFFICES ASSUME Inv, [Next]_vars, NEW f \in Calls, row[f].life # "none",
                      \A k \in Calls : row[k].family = f => ~ Usable(k),
                      \A c \in Calls : Exchanging(c) => row[call[c].token].family # f,
                      NEW k \in Calls, row'[k].family = f, Usable(k)'
               PROVE  FALSE
    OBVIOUS
  <2>1. QED
    BY Renewal DEF Issued
<1>2. QED
  BY <1>1, Invariance, PTL DEF Spec, EndedStaysEnded

(* A call that is served and cannot go on waits, at every row it has left, *)
(* for another that is served and has begun its transaction.               *)
Begun == {c \in Calls : call[c].stage \in Running /\ ~ (call[c].kind = "login" /\ call[c].stage = "sent")}

LEMMA HolderHasBegun ==
  ASSUME Inv, NEW c \in Calls, NEW k \in Calls, ~ Passes(c, k)
  PROVE  \E d \in Begun : d # c /\ k \in call[d].held
<1>1. PICK d \in Calls \ {c} : k \in call[d].held
  BY DEF Passes, Free
<1>2. call[d].stage \in Running /\ call[d].stage # "sent"
  BY <1>1 DEF Inv, TypeOK
<1>3. QED
  BY <1>1, <1>2 DEF Begun

LEMMA WaitsForTheBegun ==
  ASSUME Inv, NEW c \in Begun, ~ CanGoOn(c)
  PROVE  Stuck(c) /\ \E d \in Begun : WaitsFor(c, d)
<1> USE DEF Inv
<1>1. c \in Calls /\ call[c].stage \in Running /\ call[c] \in Call
  BY DEF Begun, TypeOK
<1>2. ASSUME NEW d \in Begun, WaitsFor(c, d), call[c].todo = {} PROVE Stuck(c)
  BY <1>2 DEF Stuck, Begun
<1>3. CASE call[c].stage = "sent"
  <2>1. call[c].kind = "refresh" /\ call[c].token \in Calls /\ call[c].todo = {}
    BY <1>1, <1>3 DEF Begun, CanGoOn, Stages, Call, Kinds
  <2>2. ~ Passes(c, call[c].token)
    BY <1>3, <2>1 DEF CanGoOn
  <2>3. PICK d \in Begun : d # c /\ call[c].token \in call[d].held
    BY <1>1, <2>1, <2>2, HolderHasBegun
  <2>4. WaitsFor(c, d)
    BY <1>3, <2>1, <2>3 DEF WaitsFor
  <2>5. QED
    BY <1>2, <2>1, <2>4
<1>4. CASE call[c].stage \in {"exchanging", "deleting"}
  <2>1. call[c].stage = "exchanging" => account
    BY <1>1 DEF Exchanges, Open, DeletedTakesEverySession, Stages
  <2>2. PICK d \in Deletions : TRUE
    BY <1>4, <2>1 DEF CanGoOn
  <2>3. d \in Begun /\ d # c /\ call[d].stage = "cascading"
    BY <1>4, <2>2 DEF Deletions, Begun, Running
  <2>4. WaitsFor(c, d) /\ call[c].todo = {}
    BY <1>1, <1>4, <2>3 DEF WaitsFor, Stages
  <2>5. QED
    BY <1>2, <2>3, <2>4
<1>5. CASE call[c].stage \in {"revoking", "cascading"}
  <2>1. call[c].todo # {} /\ call[c].todo \subseteq Calls /\ \A k \in call[c].todo : ~ Passes(c, k)
    BY <1>1, <1>5 DEF CanGoOn, Call
  <2>2. PICK k \in call[c].todo : ~ Passes(c, k)
    BY <2>1
  <2>3. PICK d \in Begun : d # c /\ k \in call[d].held
    BY <1>1, <2>1, <2>2, HolderHasBegun
  <2>4. WaitsFor(c, d) /\ d \in Calls
    BY <2>2, <2>3 DEF WaitsFor, Begun
  <2>5. QED
    BY <2>1, <2>3, <2>4 DEF Stuck
<1>6. QED
  BY <1>1, <1>3, <1>4, <1>5 DEF Running

LEMMA SomeCallCanGoOn == Inv => NeverStuck
<1> SUFFICES ASSUME Inv, NEW c \in Calls, call[c].stage \in Running, \A d \in Calls : ~ CanGoOn(d)
             PROVE  FALSE
  BY DEF NeverStuck
<1>1. Begun # {}
  <2>1. CASE c \in Begun
    BY <2>1
  <2>2. CASE c \notin Begun
    <3>1. PICK d \in Deletions : TRUE
      BY <2>2 DEF Begun, CanGoOn
    <3>2. d \in Begun
      BY <3>1 DEF Deletions, Begun, Running
    <3>3. QED
      BY <3>2
  <2>3. QED
    BY <2>1, <2>2
<1>2. Begun \subseteq Calls
  BY DEF Begun
<1>3. \A d \in Begun : Stuck(d) /\ \E e \in Begun : WaitsFor(d, e)
  BY <1>2, WaitsForTheBegun
<1>4. Begun \in Deadlocks
  BY <1>1, <1>2, <1>3 DEF Deadlocks
<1>5. PICK d \in Begun : d \in UNION Deadlocks
  BY <1>1, <1>4
<1>6. QED
  BY <1>2, <1>5 DEF CanGoOn

(* A call that takes a step could go on: what a step waits for is told by  *)
(* CanGoOn, action by action.                                              *)
LEMMA ServedCouldGoOn == ASSUME Inv, NEW c \in Calls, Serve(c) PROVE CanGoOn(c)
<1>1. CASE TouchRow(c)
  <2>1. PICK k \in call[c].todo : Passes(c, k)
    BY <1>1 DEF TouchRow
  <2>2. call[c].stage \in {"revoking", "cascading"}
    BY <2>1 DEF Inv, Stages
  <2>3. QED
    BY <2>1, <2>2 DEF CanGoOn
<1>2. QED
  BY <1>1 DEF Serve, InsertSession, LockToken, Exchange, RevokeRefreshToken, RevokeAllForUser, DeleteUser,
              CommitRevocation, CommitDeletion, DeadlockVictim, CanGoOn

(* Whatever calls wait for one another, at rows or at the account, one of  *)
(* them can go on, or is the victim the database picks: were there none,   *)
(* those that have begun would be a circle it finds (store.go).            *)
THEOREM SomeoneCanGoOn == Spec => []NeverStuck
BY SomeCallCanGoOn, Invariance, PTL
=============================================================================
