---------------------------- MODULE Access_proofs ----------------------------
(***************************************************************************)
(* Proofs about application sessions: a login has one lineage with at most *)
(* one live session, a deleted identity stays locked out and a revoked     *)
(* session stays revoked, for any number of request handlers, users,       *)
(* tenants, logins, sessions and webhook events.                           *)
(*                                                                         *)
(* The handlers share nothing but the tables, so the argument is one about *)
(* locks: what a transaction found when it took a row lock (an unmarked    *)
(* login, an unrevoked session) still holds when it commits, whatever the  *)
(* other handlers commit in between.                                       *)
(***************************************************************************)
EXTENDS Access, TLAPS

LEMMA RowType ==
  ASSUME NEW r \in Row
  PROVE  /\ r.user \in Users /\ r.tenant \in Tenants
         /\ r.psession \in ProviderSessions \cup {None} /\ r.login \in Logins
         /\ r.from \in Sessions \cup {None} /\ r.idle \in Nat /\ r.absolute \in Nat
         /\ r.revoked \in BOOLEAN
         /\ r # None
BY NullAssumption DEF Row

LEMMA RevokedRow ==
  ASSUME NEW r \in Row
  PROVE  LET x == [r EXCEPT !.revoked = TRUE] IN
         x \in Row /\ x # None /\ x.revoked = TRUE /\ SameSession(r, x) /\ x.idle = r.idle
BY NullAssumption DEF Row, SameSession

LEMMA TouchedRow ==
  ASSUME NEW r \in Row, NEW read \in Row, NEW now \in Nat
  PROVE  LET x == Touched(r, read, now) IN
         x \in Row /\ x # None /\ x.revoked = r.revoked /\ SameSession(r, x)
<1>1. CASE r.revoked
  BY <1>1, NullAssumption DEF Touched, SameSession
<1>2. CASE ~r.revoked
  <2> DEFINE i == Least(Least(now + IdleTimeout, read.absolute), r.absolute)
  <2>1. i \in Nat
    BY IdentityAssumption, RowType DEF Least
  <2>2. Touched(r, read, now) = [r EXCEPT !.idle = i]
    BY <1>2 DEF Touched
  <2> HIDE DEF i
  <2> QED BY <1>2, <2>1, <2>2, NullAssumption DEF Row, SameSession
<1> QED BY <1>1, <1>2

LEMMA NoJobType == NoJob \in Job /\ NoTx \in Tx
BY DEF NoJob, NoTx, Job, Tx, Kinds

\* What a request has when it comes in.
LEMMA NewJobType ==
  ASSUME TypeOK, NEW kind \in Kinds
  PROVE  /\ NewJob(kind) \in Job
         /\ NewJob(kind).kind = kind
         /\ \A u \in NewJob(kind).barred : u \in Users /\ users[u] = "disabled"
BY DEF TypeOK, NewJob, NoJob, Job

LEMMA AnswerType ==
  ASSUME TypeOK, NEW w \in Workers, Answer(w)
  PROVE  /\ pc' \in [Workers -> Steps] /\ job' \in [Workers -> Job]
         /\ pc'[w] = "idle" /\ job'[w] = NoJob
         /\ \A q \in Workers \ {w} : pc'[q] = pc[q] /\ job'[q] = job[q]
BY NoJobType DEF TypeOK, Answer, GoTo, Steps

LEMMA GoToType ==
  ASSUME TypeOK, NEW w \in Workers, NEW step \in Steps, GoTo(w, step)
  PROVE  /\ pc' \in [Workers -> Steps] /\ pc'[w] = step
         /\ \A q \in Workers \ {w} : pc'[q] = pc[q]
BY DEF TypeOK, GoTo

\* The tables keep their types and every handler but w its state.
LEMMA RequestType ==
  ASSUME IndInv, NEW w \in Workers, Request(w)
  PROVE  /\ TypeOK'
         /\ UNCHANGED <<clock, tables, tx>>
         /\ \A q \in Workers \ {w} : pc'[q] = pc[q] /\ job'[q] = job[q]
<1> USE DEF tables
<1> TypeOK
  BY DEF IndInv
<1>1. CASE CallbackRequest(w)
  <2>1. PICK l \in Logins : job' = [job EXCEPT ![w] = [NewJob("login") EXCEPT !.login = l]]
    BY <1>1 DEF CallbackRequest
  <2>2. [NewJob("login") EXCEPT !.login = l] \in Job
    BY NewJobType DEF Kinds, Job
  <2> QED BY <1>1, <2>1, <2>2, GoToType DEF CallbackRequest, TypeOK, Steps
<1>2. CASE SessionRequest(w)
  <2>1. PICK s \in Sessions, kind \in {"access", "refresh", "logout"} :
          job' = [job EXCEPT ![w] = [NewJob(kind) EXCEPT !.session = s]]
    BY <1>2 DEF SessionRequest
  <2>2. [NewJob(kind) EXCEPT !.session = s] \in Job
    BY NewJobType DEF Kinds, Job
  <2> QED BY <1>2, <2>1, <2>2, GoToType DEF SessionRequest, TypeOK, Steps
<1>3. CASE WebhookRequest(w)
  <2>1. PICK e \in Events : job' = [job EXCEPT ![w] = [NewJob("webhook") EXCEPT !.event = e]]
    BY <1>3 DEF WebhookRequest
  <2>2. [NewJob("webhook") EXCEPT !.event = e] \in Job
    BY NewJobType DEF Kinds, Job
  <2> QED BY <1>3, <2>1, <2>2, GoToType DEF WebhookRequest, TypeOK, Steps
<1>4. CASE OperatorRequest(w)
  <2>1. PICK m \in members :
          job' = [job EXCEPT ![w] = [NewJob("unmember") EXCEPT !.user = m[1], !.tenant = m[2]]]
    BY <1>4 DEF OperatorRequest
  <2>2. m[1] \in Users /\ m[2] \in Tenants
    BY DEF TypeOK
  <2>3. [NewJob("unmember") EXCEPT !.user = m[1], !.tenant = m[2]] \in Job
    <3>1. PICK j \in Job : j = NewJob("unmember")
      BY NewJobType DEF Kinds
    <3>2. [j EXCEPT !.user = m[1]] \in Job
      BY <2>2 DEF Job
    <3>3. [j EXCEPT !.user = m[1], !.tenant = m[2]] \in Job
      BY <2>2, <3>2 DEF Job
    <3> QED BY <3>1, <3>3
  <2> QED BY <1>4, <2>1, <2>3, GoToType DEF OperatorRequest, TypeOK, Steps
<1> QED BY <1>1, <1>2, <1>3, <1>4 DEF Request

-----------------------------------------------------------------------------
(***************************************************************************)
(* What one handler's step leaves to the others                            *)
(***************************************************************************)
KeepsOthers(w) ==
  \A q \in Workers \ {w} : pc'[q] = pc[q] /\ job'[q] = job[q] /\ tx'[q] = tx[q]

\* Rows of the tables are never removed, and change in one direction only.
Evolves ==
  /\ \A s \in Sessions : sessions[s] # None =>
       /\ sessions'[s] # None
       /\ SameSession(sessions[s], sessions'[s])
       /\ sessions[s].revoked => sessions'[s].revoked
  /\ \A l \in Logins : logins[l] # None =>
       /\ logins'[l] # None
       /\ logins[l].consumed => logins'[l].consumed
  /\ \A u \in Users : users[u] = "disabled" => users'[u] = "disabled"

\* The rows that handler q has locked do not change.
KeepsLocked(q) ==
  /\ \A s \in tx[q].revoked : Live(s) => sessions'[s] # None /\ ~sessions'[s].revoked
  /\ (tx[q].session # None /\ sessions[tx[q].session] = None) =>
       sessions'[tx[q].session] = None
  /\ (tx[q].login # None /\ ~logins[tx[q].login].consumed) =>
       ~logins'[tx[q].login].consumed

LEMMA SameSessionTrans ==
  ASSUME NEW r1, NEW r2, NEW r3, SameSession(r1, r2), SameSession(r2, r3)
  PROVE  SameSession(r1, r3)
BY DEF SameSession

\* Then what holds of handler q goes on to hold.
LEMMA OtherWorker ==
  ASSUME IndInv, NEW q \in Workers, Evolves, KeepsLocked(q),
         pc'[q] = pc[q], job'[q] = job[q], tx'[q] = tx[q]
  PROVE  WorkerInv(q)'
<1>0. TypeOK /\ WorkerInv(q)
  BY DEF IndInv
<1>1. JobFits(q)'
  <2>1. JobFits(q)
    BY <1>0 DEF WorkerInv
  <2>2. job[q].kind \in SessionKinds /\ pc[q] # "read" =>
          SameSession(job[q].row, sessions'[job[q].session])
    BY <2>1, SameSessionTrans DEF JobFits, Evolves
  <2> QED BY <2>1, <2>2 DEF JobFits, Evolves
<1>2. (pc[q] \in Outside => tx[q] = NoTx)'
  BY <1>0 DEF WorkerInv
<1>3. PendingLogin(q)'
  BY <1>0 DEF WorkerInv, PendingLogin, KeepsLocked
<1>4. PendingRevocations(q)'
  BY <1>0 DEF WorkerInv, PendingRevocations, KeepsLocked, Live
<1>5. PendingSession(q)'
  BY <1>0 DEF WorkerInv, PendingSession, KeepsLocked
<1>6. PendingReceipt(q)'
  BY <1>0 DEF WorkerInv, PendingReceipt
<1>7. BarredAreDisabled(q)'
  BY <1>0 DEF WorkerInv, BarredAreDisabled, Evolves
<1> QED BY <1>1, <1>2, <1>3, <1>4, <1>5, <1>6, <1>7 DEF WorkerInv

\* The rows w has locked are locked by no other handler.
LocksApart(w) ==
  \A q \in Workers \ {w} :
    /\ tx[w].login # None => tx[w].login # tx[q].login
    /\ tx[w].session # None => tx[w].session # tx[q].session
    /\ tx[w].revoked \cap tx[q].revoked = {}

LEMMA ApartStep ==
  ASSUME IndInv, NEW w \in Workers, KeepsOthers(w), LocksApart(w)'
  PROVE  LockedApart'
<1>1. LockedApart
  BY DEF IndInv
<1> QED BY <1>1 DEF LockedApart, LocksApart, KeepsOthers

\* The locks of a transaction that has ended, and of one that takes none.
LEMMA FewerLocks ==
  ASSUME IndInv, NEW w \in Workers, KeepsOthers(w),
         tx'[w].login \in {None, tx[w].login}, tx'[w].session \in {None, tx[w].session},
         tx'[w].revoked \subseteq tx[w].revoked
  PROVE  LocksApart(w)'
<1>1. LockedApart
  BY DEF IndInv
<1> QED BY <1>1 DEF LockedApart, LocksApart, KeepsOthers

\* A step that writes nothing to the tables.
LEMMA TablesKept ==
  ASSUME IndInv, NEW w \in Workers, UNCHANGED tables, TypeOK', KeepsOthers(w),
         WorkerInv(w)', LocksApart(w)'
  PROVE  IndInv'
<1> USE DEF tables
<1>1. LockedApart'
  BY ApartStep
<1>2. ASSUME NEW q \in Workers, q # w PROVE WorkerInv(q)'
  <2>1. Evolves
    BY DEF Evolves, SameSession
  <2>2. KeepsLocked(q)
    BY DEF KeepsLocked, Live
  <2> QED BY <1>2, <2>1, <2>2, OtherWorker DEF KeepsOthers
<1>3. Ancestry' /\ LineageIsLinear' /\ OneLiveSessionPerLogin' /\ ReceiptImpliesEffect'
  BY DEF IndInv, Ancestry, LineageIsLinear, OneLiveSessionPerLogin, ReceiptImpliesEffect, Live
<1> QED BY <1>1, <1>2, <1>3 DEF IndInv

-----------------------------------------------------------------------------
(***************************************************************************)
(* The statements that write nothing to the tables, one by one             *)
(***************************************************************************)

\* A handler that answers has nothing left.
LEMMA AnswerInv ==
  ASSUME NEW w \in Workers, pc'[w] = "idle", job'[w] = NoJob, tx'[w] = NoTx
  PROVE  WorkerInv(w)'
BY DEF WorkerInv, JobFits, StepsOf, SessionKinds, PendingLogin, PendingRevocations,
       PendingSession, PendingReceipt, BarredAreDisabled, NoJob, NoTx

\* Outside a transaction only the request and what was read matter.
LEMMA OutsideInv ==
  ASSUME NEW w \in Workers, pc'[w] \in Outside, tx'[w] = NoTx, JobFits(w)',
         BarredAreDisabled(w)'
  PROVE  WorkerInv(w)'
BY DEF WorkerInv, JobFits, StepsOf, SessionKinds, PendingLogin, PendingRevocations,
       PendingSession, PendingReceipt, NoTx, Outside

LEMMA RequestInv ==
  ASSUME IndInv, NEW w \in Workers, Request(w)
  PROVE  IndInv'
<1>1. TypeOK' /\ UNCHANGED <<clock, tables, tx>> /\ KeepsOthers(w)
  BY RequestType DEF KeepsOthers
<1>2. TypeOK /\ WorkerInv(w)
  BY DEF IndInv
<1>3. pc[w] = "idle" /\ tx'[w] = NoTx
  BY <1>1, <1>2 DEF Request, CallbackRequest, SessionRequest, WebhookRequest, OperatorRequest,
     WorkerInv, Outside
<1>4. pc'[w] \in Outside /\ JobFits(w)' /\ BarredAreDisabled(w)'
  <2> USE DEF tables
  <2>1. CASE CallbackRequest(w)
    <3>1. PICK l \in Logins : /\ logins[l] # None
                             /\ job' = [job EXCEPT ![w] = [NewJob("login") EXCEPT !.login = l]]
      BY <2>1 DEF CallbackRequest
    <3>2. /\ job'[w].kind = "login" /\ job'[w].login = l
          /\ \A u \in job'[w].barred : u \in Users /\ users[u] = "disabled"
      BY <1>2, <3>1, NewJobType DEF TypeOK, Kinds, Job
    <3>3. pc'[w] = "consume"
      BY <1>2, <2>1 DEF CallbackRequest, GoTo, TypeOK
    <3> QED BY <1>1, <3>1, <3>2, <3>3 DEF JobFits, StepsOf, SessionKinds, BarredAreDisabled, Outside
  <2>2. CASE SessionRequest(w)
    <3>1. PICK s \in Sessions, kind \in {"access", "refresh", "logout"} :
            /\ sessions[s] # None
            /\ job' = [job EXCEPT ![w] = [NewJob(kind) EXCEPT !.session = s]]
      BY <2>2 DEF SessionRequest
    <3>2. /\ job'[w].kind = kind /\ job'[w].session = s
          /\ \A u \in job'[w].barred : u \in Users /\ users[u] = "disabled"
      BY <1>2, <3>1, NewJobType DEF TypeOK, Kinds, Job
    <3>3. pc'[w] = "read"
      BY <1>2, <2>2 DEF SessionRequest, GoTo, TypeOK
    <3> QED BY <1>1, <3>1, <3>2, <3>3 DEF JobFits, StepsOf, SessionKinds, BarredAreDisabled, Outside
  <2>3. CASE WebhookRequest(w)
    <3>1. PICK e \in Events : job' = [job EXCEPT ![w] = [NewJob("webhook") EXCEPT !.event = e]]
      BY <2>3 DEF WebhookRequest
    <3>2. /\ job'[w].kind = "webhook" /\ job'[w].event = e
          /\ \A u \in job'[w].barred : u \in Users /\ users[u] = "disabled"
      BY <1>2, <3>1, NewJobType DEF TypeOK, Kinds, Job
    <3>3. pc'[w] = "receipt"
      BY <1>2, <2>3 DEF WebhookRequest, GoTo, TypeOK
    <3> QED BY <1>1, <3>1, <3>2, <3>3 DEF JobFits, StepsOf, SessionKinds, BarredAreDisabled, Outside
  <2>4. CASE OperatorRequest(w)
    <3>1. PICK m \in members :
            job' = [job EXCEPT ![w] = [NewJob("unmember") EXCEPT !.user = m[1], !.tenant = m[2]]]
      BY <2>4 DEF OperatorRequest
    <3>2. /\ job'[w].kind = "unmember" /\ job'[w].user \in Users /\ job'[w].tenant \in Tenants
          /\ \A u \in job'[w].barred : u \in Users /\ users[u] = "disabled"
      <4>1. m[1] \in Users /\ m[2] \in Tenants
        BY <1>2 DEF TypeOK
      <4> QED BY <1>2, <3>1, <4>1, NewJobType DEF TypeOK, Kinds, Job
    <3>3. pc'[w] = "unmember"
      BY <1>2, <2>4 DEF OperatorRequest, GoTo, TypeOK
    <3> QED BY <1>1, <3>1, <3>2, <3>3 DEF JobFits, StepsOf, SessionKinds, BarredAreDisabled, Outside
  <2> QED BY <2>1, <2>2, <2>3, <2>4 DEF Request
<1>5. WorkerInv(w)'
  BY <1>3, <1>4, OutsideInv
<1>6. LocksApart(w)'
  BY <1>1, <1>3, FewerLocks DEF NoTx
<1> QED BY <1>1, <1>5, <1>6, TablesKept

Reading == {"read", "expire", "identity", "membership", "touch", "csrf", "revoke"}

\* Where a handler is while it resolves a session.
LEMMA Reader ==
  ASSUME IndInv, NEW w \in Workers, pc[w] \in Reading
  PROVE  /\ job[w].kind \in SessionKinds
         /\ job[w].session \in Sessions
         /\ sessions[job[w].session] \in Row
         /\ tx[w] = NoTx
         /\ pc[w] # "read" => /\ job[w].row \in Row
                              /\ SameSession(job[w].row, sessions[job[w].session])
         /\ pc[w] \in {"csrf", "revoke"} => job[w].kind # "access"
<1>1. TypeOK /\ WorkerInv(w)
  BY DEF IndInv
<1>2. JobFits(w)
  BY <1>1 DEF WorkerInv
<1>3. /\ job[w].kind \in SessionKinds
      /\ pc[w] \in {"csrf", "revoke"} => job[w].kind # "access"
  BY <1>1, <1>2 DEF JobFits, StepsOf, SessionKinds, Reading, TypeOK, Job, Kinds
<1>4. tx[w] = NoTx
  BY <1>1 DEF WorkerInv, Outside, Reading
<1> QED BY <1>1, <1>2, <1>3, <1>4 DEF JobFits, TypeOK

\* The handler goes on to another statement, with the same job.
LEMMA ReaderGoesOn ==
  ASSUME IndInv, NEW w \in Workers, pc[w] \in Reading, pc[w] # "read",
         UNCHANGED <<clock, tables, job, tx>>,
         NEW step \in {"membership", "touch"}, GoTo(w, step), BarredAreDisabled(w)'
  PROVE  IndInv'
<1> USE DEF tables
<1>1. TypeOK /\ WorkerInv(w)
  BY DEF IndInv
<1>2. TypeOK' /\ KeepsOthers(w) /\ pc'[w] = step
  BY <1>1, GoToType DEF TypeOK, Steps, KeepsOthers
<1>3. JobFits(w)'
  <2>1. step \in StepsOf(job[w].kind)
    BY Reader DEF StepsOf, SessionKinds
  <2> QED BY <1>1, <1>2, <2>1, Reader DEF WorkerInv, JobFits, SessionKinds
<1>4. WorkerInv(w)'
  BY <1>2, <1>3, Reader, OutsideInv DEF Outside
<1>5. LocksApart(w)'
  BY <1>2, Reader, FewerLocks DEF NoTx
<1> QED BY <1>2, <1>4, <1>5, TablesKept

\* The handler answers, having written nothing.
LEMMA AnswerStep ==
  ASSUME IndInv, NEW w \in Workers, UNCHANGED <<clock, tables>>, Answer(w), tx'[w] = NoTx,
         \A q \in Workers \ {w} : tx'[q] = tx[q], tx' \in [Workers -> Tx]
  PROVE  IndInv'
<1> USE DEF tables
<1>1. TypeOK
  BY DEF IndInv
<1>2. TypeOK' /\ KeepsOthers(w) /\ pc'[w] = "idle" /\ job'[w] = NoJob
  BY <1>1, AnswerType DEF TypeOK, KeepsOthers
<1>3. WorkerInv(w)'
  BY <1>2, AnswerInv
<1>4. LocksApart(w)'
  BY <1>2, FewerLocks DEF NoTx
<1> QED BY <1>2, <1>3, <1>4, TablesKept

\* The handler reads the clock.
LEMMA ReadsClock ==
  ASSUME TypeOK, NEW w \in Workers, NEW now \in Nat, job' = [job EXCEPT ![w].now = now]
  PROVE  /\ job' \in [Workers -> Job]
         /\ job'[w].kind = job[w].kind /\ job'[w].session = job[w].session
         /\ job'[w].row = job[w].row /\ job'[w].barred = job[w].barred
         /\ \A q \in Workers \ {w} : job'[q] = job[q]
<1>1. job[w] \in Job
  BY DEF TypeOK
<1>2. [job[w] EXCEPT !.now = now] \in Job
  BY <1>1 DEF Job
<1>3. job' = [job EXCEPT ![w] = [job[w] EXCEPT !.now = now]]
  OBVIOUS
<1>4. job'[w] = [job[w] EXCEPT !.now = now] /\ \A q \in Workers \ {w} : job'[q] = job[q]
  BY <1>3 DEF TypeOK
<1>5. job' \in [Workers -> Job]
  BY <1>2, <1>3 DEF TypeOK
<1> QED BY <1>1, <1>4, <1>5 DEF Job

LEMMA ReadSessionInv ==
  ASSUME IndInv, NEW w \in Workers, ReadSession(w)
  PROVE  IndInv'
<1> USE DEF tables
<1>0. TypeOK /\ WorkerInv(w) /\ pc[w] \in Reading /\ pc[w] = "read"
  BY DEF IndInv, ReadSession, Reading
<1>1. CASE Answer(w)
  BY <1>0, <1>1, Reader, AnswerStep DEF ReadSession, TypeOK
<1>2. CASE ~Answer(w)
  <2>1. PICK s : s = job[w].session
    OBVIOUS
  <2>2. PICK step : step = IF sessions[s].idle <= clock \/ sessions[s].absolute <= clock
                             THEN "expire" ELSE "identity"
    OBVIOUS
  <2>3. /\ step \in {"expire", "identity"} /\ GoTo(w, step)
        /\ job' = [job EXCEPT ![w].row = sessions[s], ![w].now = clock]
        /\ UNCHANGED <<clock, tables, tx>>
    BY <1>2, <2>1, <2>2 DEF ReadSession
  <2>4. /\ job' \in [Workers -> Job]
        /\ job'[w].kind = job[w].kind /\ job'[w].session = s /\ job'[w].row = sessions[s]
        /\ job'[w].barred = job[w].barred
        /\ \A q \in Workers \ {w} : job'[q] = job[q]
    <3>1. job[w] \in Job /\ clock \in Nat /\ sessions[s] \in Row
      BY <1>0, <2>1, Reader DEF TypeOK
    <3>2. [job[w] EXCEPT !.row = sessions[s], !.now = clock] \in Job
      BY <3>1 DEF Job
    <3>3. job' = [job EXCEPT ![w] = [job[w] EXCEPT !.row = sessions[s], !.now = clock]]
      BY <1>0, <2>3 DEF TypeOK
    <3> QED BY <1>0, <2>1, <3>1, <3>2, <3>3 DEF TypeOK, Job
  <2>5. TypeOK' /\ KeepsOthers(w) /\ pc'[w] = step
    BY <1>0, <2>3, <2>4, GoToType DEF TypeOK, Steps, KeepsOthers
  <2>6. JobFits(w)'
    <3>1. step \in StepsOf(job[w].kind)
      BY <1>0, <2>3, Reader DEF StepsOf, SessionKinds
    <3> QED BY <1>0, <2>1, <2>3, <2>4, <2>5, <3>1, Reader, RowType
            DEF JobFits, SessionKinds, SameSession
  <2>7. BarredAreDisabled(w)'
    BY <1>0, <2>3, <2>4, <2>5 DEF WorkerInv, BarredAreDisabled
  <2>8. WorkerInv(w)'
    BY <1>0, <2>3, <2>5, <2>6, <2>7, Reader, OutsideInv DEF Outside
  <2>9. LocksApart(w)'
    BY <1>0, <2>3, <2>5, Reader, FewerLocks DEF NoTx
  <2> QED BY <2>3, <2>5, <2>8, <2>9, TablesKept
<1> QED BY <1>1, <1>2

LEMMA GetIdentityInv ==
  ASSUME IndInv, NEW w \in Workers, GetIdentity(w)
  PROVE  IndInv'
<1> USE DEF tables
<1>0. TypeOK /\ WorkerInv(w) /\ pc[w] \in Reading /\ pc[w] = "identity"
  BY DEF IndInv, GetIdentity, Reading
<1>1. CASE Answer(w)
  BY <1>0, <1>1, Reader, AnswerStep DEF GetIdentity, TypeOK
<1>2. CASE ~Answer(w)
  <2>1. /\ users[job[w].row.user] = "active" /\ GoTo(w, "membership")
        /\ UNCHANGED <<clock, tables, job, tx>>
    BY <1>2 DEF GetIdentity
  <2>2. job[w].row.user \notin job[w].barred
    BY <1>0, <2>1 DEF WorkerInv, BarredAreDisabled
  <2>3. BarredAreDisabled(w)'
    BY <1>0, <2>1, <2>2 DEF WorkerInv, BarredAreDisabled
  <2> QED BY <1>0, <2>1, <2>3, ReaderGoesOn
<1> QED BY <1>1, <1>2

LEMMA ListActiveMembershipsInv ==
  ASSUME IndInv, NEW w \in Workers, ListActiveMemberships(w)
  PROVE  IndInv'
<1> USE DEF tables
<1>0. TypeOK /\ WorkerInv(w) /\ pc[w] \in Reading /\ pc[w] = "membership"
  BY DEF IndInv, ListActiveMemberships, Reading
<1>1. CASE Answer(w)
  BY <1>0, <1>1, Reader, AnswerStep DEF ListActiveMemberships, TypeOK
<1>2. CASE ~Answer(w)
  <2>1. GoTo(w, "touch") /\ UNCHANGED <<clock, tables, job, tx>>
    BY <1>2 DEF ListActiveMemberships
  <2>2. BarredAreDisabled(w)'
    BY <1>0, <2>1 DEF WorkerInv, BarredAreDisabled
  <2> QED BY <1>0, <2>1, <2>2, ReaderGoesOn
<1> QED BY <1>1, <1>2

LEMMA VerifyCsrfInv ==
  ASSUME IndInv, NEW w \in Workers, VerifyCsrf(w)
  PROVE  IndInv'
<1> USE DEF tables
<1>0. TypeOK /\ WorkerInv(w) /\ pc[w] \in Reading /\ pc[w] = "csrf"
  BY DEF IndInv, VerifyCsrf, Reading
<1>1. CASE Answer(w)
  BY <1>0, <1>1, Reader, AnswerStep DEF VerifyCsrf, TypeOK
<1>2. CASE ~Answer(w)
  <2>1. /\ GoTo(w, "revoke")
        /\ job' = [job EXCEPT ![w].now = clock]
        /\ UNCHANGED <<clock, tables, tx>>
    BY <1>2 DEF VerifyCsrf
  <2>2. /\ job' \in [Workers -> Job]
        /\ job'[w].kind = job[w].kind /\ job'[w].session = job[w].session
        /\ job'[w].row = job[w].row /\ job'[w].barred = job[w].barred
        /\ \A q \in Workers \ {w} : job'[q] = job[q]
    BY <1>0, <2>1, ReadsClock DEF TypeOK
  <2>3. TypeOK' /\ KeepsOthers(w) /\ pc'[w] = "revoke"
    BY <1>0, <2>1, <2>2, GoToType DEF TypeOK, Steps, KeepsOthers
  <2>4. JobFits(w)'
    <3>1. "revoke" \in StepsOf(job[w].kind)
      BY <1>0, Reader DEF StepsOf, SessionKinds
    <3> QED BY <1>0, <2>1, <2>2, <2>3, <3>1, Reader, RowType DEF JobFits, SessionKinds
  <2>5. BarredAreDisabled(w)'
    BY <1>0, <2>1, <2>2, <2>3 DEF WorkerInv, BarredAreDisabled
  <2>6. WorkerInv(w)'
    BY <1>0, <2>1, <2>3, <2>4, <2>5, Reader, OutsideInv DEF Outside
  <2>7. LocksApart(w)'
    BY <1>0, <2>1, <2>3, Reader, FewerLocks DEF NoTx
  <2> QED BY <2>1, <2>3, <2>6, <2>7, TablesKept
<1> QED BY <1>1, <1>2

LEMMA TxEdit ==
  ASSUME TypeOK, NEW w \in Workers, NEW x \in Tx, tx' = [tx EXCEPT ![w] = x]
  PROVE  /\ tx' \in [Workers -> Tx] /\ tx'[w] = x
         /\ \A q \in Workers \ {w} : tx'[q] = tx[q]
BY DEF TypeOK

\* A session that a transaction has written to is locked.
LEMMA RevokeSessionInv ==
  ASSUME IndInv, NEW w \in Workers, RevokeSession(w)
  PROVE  IndInv'
<1> USE DEF tables
<1>0. TypeOK /\ WorkerInv(w) /\ pc[w] \in Reading /\ pc[w] = "revoke"
  BY DEF IndInv, RevokeSession, Reading
<1>1. PICK s : s = job[w].session
  OBVIOUS
<1>2. /\ s \in Sessions /\ sessions[s] \in Row /\ tx[w] = NoTx
      /\ job[w].kind \in {"refresh", "logout"} /\ job[w].row \in Row
      /\ SameSession(job[w].row, sessions[s])
  BY <1>0, <1>1, Reader DEF SessionKinds
<1>3. /\ job' \in [Workers -> Job]
      /\ job'[w].kind = job[w].kind /\ job'[w].session = s
      /\ job'[w].row = job[w].row /\ job'[w].barred = job[w].barred
      /\ \A q \in Workers \ {w} : job'[q] = job[q]
  <2>1. PICK now \in job[w].now..clock : job' = [job EXCEPT ![w].now = now]
    BY DEF RevokeSession
  <2>2. now \in Nat
    BY <1>0 DEF TypeOK, Job
  <2> QED BY <1>0, <1>1, <2>1, <2>2, ReadsClock
<1>4. CASE Live(s) /\ tx' = [tx EXCEPT ![w].revoked = {s}]
              /\ GoTo(w, IF job[w].kind = "refresh" THEN "issue" ELSE "commit")
  <2>1. PICK step : step = IF job[w].kind = "refresh" THEN "issue" ELSE "commit"
    OBVIOUS
  <2>2. PICK x : x = [NoTx EXCEPT !.revoked = {s}]
    OBVIOUS
  <2>3. x \in Tx /\ x.login = None /\ x.session = None /\ x.receipt = None /\ x.revoked = {s}
    BY <1>2, <2>2 DEF NoTx, Tx
  <2>4. tx' = [tx EXCEPT ![w] = x]
    BY <1>2, <1>4, <2>2
  <2>5. UNCHANGED <<clock, tables>> /\ ~SessionIsLocked(w, s)
    BY <1>1 DEF RevokeSession
  <2>6. TypeOK' /\ KeepsOthers(w) /\ pc'[w] = step /\ tx'[w] = x
    <3>1. step \in Steps /\ GoTo(w, step)
      BY <1>4, <2>1 DEF Steps
    <3> QED BY <1>0, <1>3, <2>3, <2>4, <2>5, <3>1, GoToType, TxEdit DEF TypeOK, KeepsOthers
  <2>7. JobFits(w)'
    BY <1>2, <1>3, <2>1, <2>6, <2>5, RowType DEF JobFits, StepsOf, SessionKinds
  <2>8. PendingRevocations(w)'
    BY <1>2, <1>3, <1>4, <2>3, <2>6, <2>5 DEF PendingRevocations, Live
  <2>9. BarredAreDisabled(w)'
    BY <1>0, <1>3, <2>1, <2>6, <2>5 DEF WorkerInv, BarredAreDisabled
  <2>10. WorkerInv(w)'
    BY <1>2, <1>3, <2>1, <2>3, <2>6, <2>7, <2>8, <2>9
       DEF WorkerInv, Outside, PendingLogin, PendingSession, PendingReceipt
  <2>11. LocksApart(w)'
    BY <2>3, <2>6, <2>5 DEF LocksApart, SessionIsLocked, Others, KeepsOthers
  <2> QED BY <2>6, <2>5, <2>10, <2>11, TablesKept
<1>5. CASE job[w].kind = "logout" /\ GoTo(w, "commit") /\ UNCHANGED tx
  <2>1. UNCHANGED <<clock, tables>>
    BY DEF RevokeSession
  <2>2. TypeOK' /\ KeepsOthers(w) /\ pc'[w] = "commit" /\ tx'[w] = NoTx
    BY <1>0, <1>2, <1>3, <1>5, <2>1, GoToType DEF TypeOK, Steps, KeepsOthers
  <2>3. JobFits(w)'
    BY <1>2, <1>3, <1>5, <2>1, <2>2, RowType DEF JobFits, StepsOf, SessionKinds
  <2>4. BarredAreDisabled(w)'
    BY <1>0, <1>3, <2>1, <2>2 DEF WorkerInv, BarredAreDisabled
  <2>5. WorkerInv(w)'
    BY <1>3, <1>5, <2>2, <2>3, <2>4
       DEF WorkerInv, PendingLogin, PendingRevocations, PendingSession, PendingReceipt, NoTx
  <2>6. LocksApart(w)'
    BY <2>2, FewerLocks DEF NoTx
  <2> QED BY <2>1, <2>2, <2>5, <2>6, TablesKept
<1> QED BY <1>1, <1>4, <1>5 DEF RevokeSession

\* A handler in a transaction of its login.
LEMMA LoginWorker ==
  ASSUME IndInv, NEW w \in Workers, job[w].kind = "login"
  PROVE  /\ job[w].login \in Logins /\ logins[job[w].login] # None
         /\ tx[w].revoked = {}
         /\ pc[w] # "consume" => /\ tx[w].login = job[w].login
                                 /\ ~logins[job[w].login].consumed
         /\ tx[w].receipt # None => tx[w].receipt = job[w].event
<1>1. TypeOK /\ WorkerInv(w)
  BY DEF IndInv
<1>2. None \notin Logins
  BY IdentityAssumption
<1> QED BY <1>1, <1>2 DEF WorkerInv, JobFits, PendingLogin, PendingRevocations, PendingReceipt

LEMMA ConsumeInv ==
  ASSUME IndInv, NEW w \in Workers, ConsumeOAuthTransaction(w)
  PROVE  IndInv'
<1> USE DEF tables
<1>0. TypeOK /\ WorkerInv(w) /\ pc[w] = "consume" /\ tx[w] = NoTx
  BY DEF IndInv, ConsumeOAuthTransaction, WorkerInv, Outside
<1>1. job[w].kind = "login"
  BY <1>0 DEF WorkerInv, JobFits, StepsOf, TypeOK, Job, Kinds
<1>2. PICK l : l = job[w].login
  OBVIOUS
<1>3. l \in Logins /\ logins[l] # None /\ ~logins[l].consumed /\ ~LoginIsLocked(w, l)
  BY <1>1, <1>2, LoginWorker DEF ConsumeOAuthTransaction
<1>4. PICK x : x = [NoTx EXCEPT !.login = l]
  OBVIOUS
<1>5. x \in Tx /\ x.login = l /\ x.session = None /\ x.receipt = None /\ x.revoked = {}
  BY <1>3, <1>4 DEF NoTx, Tx
<1>6. tx' = [tx EXCEPT ![w] = x] /\ GoTo(w, "upsert") /\ UNCHANGED <<clock, tables, job>>
  BY <1>0, <1>2, <1>4 DEF ConsumeOAuthTransaction
<1>7. TypeOK' /\ KeepsOthers(w) /\ pc'[w] = "upsert" /\ tx'[w] = x
  BY <1>0, <1>5, <1>6, GoToType, TxEdit DEF TypeOK, Steps, KeepsOthers
<1>8. JobFits(w)'
  BY <1>1, <1>2, <1>3, <1>6, <1>7 DEF JobFits, StepsOf, SessionKinds
<1>9. WorkerInv(w)'
  <2>1. PendingLogin(w)'
    BY <1>1, <1>2, <1>3, <1>5, <1>6, <1>7 DEF PendingLogin
  <2>2. PendingRevocations(w)' /\ PendingSession(w)' /\ PendingReceipt(w)'
    BY <1>1, <1>5, <1>6, <1>7 DEF PendingRevocations, PendingSession, PendingReceipt
  <2>3. BarredAreDisabled(w)'
    BY <1>0, <1>6, <1>7 DEF WorkerInv, BarredAreDisabled
  <2> QED BY <1>7, <1>8, <2>1, <2>2, <2>3 DEF WorkerInv, Outside
<1>10. LocksApart(w)'
  BY <1>3, <1>5, <1>7 DEF LocksApart, LoginIsLocked, Others, KeepsOthers
<1> QED BY <1>6, <1>7, <1>9, <1>10, TablesKept

LEMMA UpsertInv ==
  ASSUME IndInv, NEW w \in Workers, UpsertProviderIdentity(w)
  PROVE  IndInv'
<1> USE DEF tables
<1>0. TypeOK /\ WorkerInv(w) /\ pc[w] = "upsert"
  BY DEF IndInv, UpsertProviderIdentity
<1>1. job[w].kind = "login"
  BY <1>0 DEF WorkerInv, JobFits, StepsOf, TypeOK, Job, Kinds
<1>2. PICK u \in Users, ps \in ProviderSessions \cup {None}, t \in Tenants \cup {None} :
        /\ ~UserIsLocked(w, u)
        /\ users[u] = "active"
        /\ tx' = [tx EXCEPT ![w].user = u]
        /\ job' = [job EXCEPT ![w].user = u, ![w].psession = ps, ![w].tenant = t]
  BY DEF UpsertProviderIdentity
<1>3. GoTo(w, "issue") /\ UNCHANGED <<clock, tables>>
  BY DEF UpsertProviderIdentity
<1>4. PICK j : j = [job[w] EXCEPT !.user = u, !.psession = ps, !.tenant = t]
  OBVIOUS
<1>5. PICK x : x = [tx[w] EXCEPT !.user = u]
  OBVIOUS
<1>6. job[w] \in Job /\ tx[w] \in Tx
  BY <1>0 DEF TypeOK
<1>7. /\ j \in Job /\ j.kind = "login" /\ j.login = job[w].login /\ j.user = u
      /\ j.barred = job[w].barred /\ j.event = job[w].event
  BY <1>1, <1>4, <1>6 DEF Job
<1>8. /\ x \in Tx /\ x.login = tx[w].login /\ x.session = tx[w].session
      /\ x.receipt = tx[w].receipt /\ x.revoked = tx[w].revoked /\ x.disabled = tx[w].disabled
  BY <1>5, <1>6 DEF Tx
<1>9. job' = [job EXCEPT ![w] = j] /\ tx' = [tx EXCEPT ![w] = x]
  BY <1>0, <1>2, <1>4, <1>5 DEF TypeOK
<1>10. /\ TypeOK' /\ KeepsOthers(w) /\ pc'[w] = "issue" /\ job'[w] = j /\ tx'[w] = x
  BY <1>0, <1>3, <1>7, <1>8, <1>9, GoToType, TxEdit DEF TypeOK, Steps, KeepsOthers
<1>11. JobFits(w)'
  BY <1>1, <1>3, <1>7, <1>10, LoginWorker DEF JobFits, StepsOf, SessionKinds
<1>12. WorkerInv(w)'
  <2>1. PendingLogin(w)'
    BY <1>0, <1>1, <1>3, <1>7, <1>8, <1>10, LoginWorker DEF PendingLogin
  <2>2. PendingRevocations(w)' /\ PendingSession(w)' /\ PendingReceipt(w)'
    BY <1>0, <1>1, <1>3, <1>7, <1>8, <1>10, LoginWorker
       DEF WorkerInv, PendingRevocations, PendingSession, PendingReceipt
  <2>3. BarredAreDisabled(w)'
    BY <1>0, <1>3, <1>7, <1>10 DEF WorkerInv, BarredAreDisabled
  <2> QED BY <1>10, <1>11, <2>1, <2>2, <2>3 DEF WorkerInv, Outside
<1>13. LocksApart(w)'
  BY <1>8, <1>10, FewerLocks
<1> QED BY <1>3, <1>10, <1>12, <1>13, TablesKept

\* The session that is inserted has an id of its own; the transaction keeps its
\* other locks.
LEMMA IssueStep ==
  ASSUME IndInv, NEW w \in Workers, NEW u \in Users, NEW t \in Tenants,
         NEW ps \in ProviderSessions \cup {None}, NEW l \in Logins,
         NEW from \in Sessions \cup {None}, IssueApplicationSession(w, u, t, ps, l, from)
  PROVE  /\ TypeOK' /\ KeepsOthers(w) /\ LocksApart(w)'
         /\ UNCHANGED <<clock, tables, job>>
         /\ pc'[w] = "commit"
         /\ tx'[w].session \in Sessions /\ sessions[tx'[w].session] = None
         /\ tx'[w].row \in Row /\ ~tx'[w].row.revoked
         /\ tx'[w].row.login = l /\ tx'[w].row.from = from
         /\ tx'[w].login = tx[w].login /\ tx'[w].receipt = tx[w].receipt
         /\ tx'[w].revoked = tx[w].revoked /\ tx'[w].disabled = tx[w].disabled
<1> USE DEF tables
<1>0. TypeOK /\ LockedApart
  BY DEF IndInv
<1>1. PICK r : r = [user |-> u, tenant |-> t, psession |-> ps, login |-> l,
                    from |-> from, idle |-> job[w].now + IdleTimeout,
                    absolute |-> job[w].now + AbsoluteTimeout, revoked |-> FALSE]
  OBVIOUS
<1>2. PICK s \in Sessions :
        /\ sessions[s] = None
        /\ \A q \in Workers : tx[q].session # s
        /\ tx' = [tx EXCEPT ![w].session = s, ![w].row = r]
  BY <1>1 DEF IssueApplicationSession
<1>3. GoTo(w, "commit") /\ UNCHANGED <<clock, tables, job>>
  BY DEF IssueApplicationSession
<1>4. r \in Row /\ r.login = l /\ r.from = from /\ ~r.revoked
  <2>1. job[w].now \in Nat
    BY <1>0 DEF TypeOK, Job
  <2> QED BY <1>1, <2>1, IdentityAssumption DEF Row
<1>5. PICK x : x = [tx[w] EXCEPT !.session = s, !.row = r]
  OBVIOUS
<1>6. tx[w] \in Tx
  BY <1>0 DEF TypeOK
<1>7. /\ x \in Tx /\ x.session = s /\ x.row = r /\ x.login = tx[w].login
      /\ x.receipt = tx[w].receipt /\ x.revoked = tx[w].revoked /\ x.disabled = tx[w].disabled
  BY <1>4, <1>5, <1>6 DEF Tx
<1>8. tx' = [tx EXCEPT ![w] = x]
  BY <1>0, <1>2, <1>5 DEF TypeOK
<1>9. TypeOK' /\ KeepsOthers(w) /\ pc'[w] = "commit" /\ tx'[w] = x
  BY <1>0, <1>3, <1>7, <1>8, GoToType, TxEdit DEF TypeOK, Steps, KeepsOthers
<1>10. LocksApart(w)'
  <2>1. ASSUME NEW q \in Workers \ {w}
        PROVE  /\ tx[w].login # None => tx[w].login # tx[q].login
               /\ tx[q].session # s
               /\ tx[w].revoked \cap tx[q].revoked = {}
               /\ tx'[q] = tx[q]
    BY <1>0, <1>2, <1>9, <2>1 DEF LockedApart, KeepsOthers
  <2> QED BY <1>7, <1>9, <2>1 DEF LocksApart
<1> QED BY <1>2, <1>3, <1>4, <1>7, <1>9, <1>10

LEMMA CompleteLoginInv ==
  ASSUME IndInv, NEW w \in Workers, CompleteLogin(w)
  PROVE  IndInv'
<1>0. TypeOK /\ WorkerInv(w) /\ pc[w] = "issue" /\ job[w].kind = "login"
  BY DEF IndInv, CompleteLogin
<1>1. PICK u, ps, l : u = job[w].user /\ ps = job[w].psession /\ l = job[w].login
  OBVIOUS
<1>2. PICK t \in Tenants : IssueApplicationSession(w, u, t, ps, l, None)
  BY <1>1 DEF CompleteLogin, ChosenTenants
<1>3. u \in Users /\ l \in Logins /\ ps \in ProviderSessions \cup {None}
  BY <1>0, <1>1 DEF WorkerInv, JobFits, TypeOK, Job
<1>4. /\ TypeOK' /\ KeepsOthers(w) /\ LocksApart(w)' /\ UNCHANGED <<clock, tables, job>>
      /\ pc'[w] = "commit"
      /\ tx'[w].session \in Sessions /\ sessions[tx'[w].session] = None
      /\ tx'[w].row \in Row /\ ~tx'[w].row.revoked
      /\ tx'[w].row.login = l /\ tx'[w].row.from = None
      /\ tx'[w].login = tx[w].login /\ tx'[w].receipt = tx[w].receipt
      /\ tx'[w].revoked = tx[w].revoked /\ tx'[w].disabled = tx[w].disabled
  BY <1>2, <1>3, IssueStep
<1> USE DEF tables
<1>5. JobFits(w)'
  BY <1>0, <1>1, <1>3, <1>4, LoginWorker DEF JobFits, StepsOf, SessionKinds
<1>6. PendingLogin(w)' /\ PendingRevocations(w)'
  BY <1>0, <1>1, <1>4, LoginWorker DEF PendingLogin, PendingRevocations
<1>7. PendingSession(w)' /\ PendingReceipt(w)' /\ BarredAreDisabled(w)'
  BY <1>0, <1>1, <1>4 DEF WorkerInv, PendingSession, PendingReceipt, BarredAreDisabled
<1>8. WorkerInv(w)'
  BY <1>5, <1>6, <1>7, <1>4 DEF WorkerInv, Outside
<1> QED BY <1>8, <1>4, TablesKept

LEMMA RotateSessionInv ==
  ASSUME IndInv, NEW w \in Workers, RotateSession(w)
  PROVE  IndInv'
<1>0. TypeOK /\ WorkerInv(w) /\ pc[w] = "issue" /\ job[w].kind = "refresh"
  BY DEF IndInv, RotateSession
<1>1. /\ job[w].row \in Row /\ job[w].session \in Sessions
      /\ sessions[job[w].session] # None
      /\ SameSession(job[w].row, sessions[job[w].session])
  BY <1>0 DEF WorkerInv, JobFits, SessionKinds
<1>2. PICK u, t, ps, l, s : /\ u = job[w].row.user /\ t = job[w].row.tenant
                           /\ ps = job[w].row.psession /\ l = job[w].row.login
                           /\ s = job[w].session
  OBVIOUS
<1>3. /\ u \in Users /\ t \in Tenants /\ l \in Logins /\ s \in Sessions
      /\ ps \in ProviderSessions \cup {None}
  BY <1>1, <1>2, RowType
<1>4. IssueApplicationSession(w, u, t, ps, l, s)
  BY <1>2 DEF RotateSession
<1>5. /\ TypeOK' /\ KeepsOthers(w) /\ LocksApart(w)' /\ UNCHANGED <<clock, tables, job>>
      /\ pc'[w] = "commit"
      /\ tx'[w].session \in Sessions /\ sessions[tx'[w].session] = None
      /\ tx'[w].row \in Row /\ ~tx'[w].row.revoked
      /\ tx'[w].row.login = l /\ tx'[w].row.from = s
      /\ tx'[w].login = tx[w].login /\ tx'[w].receipt = tx[w].receipt
      /\ tx'[w].revoked = tx[w].revoked /\ tx'[w].disabled = tx[w].disabled
  BY <1>3, <1>4, IssueStep
<1> USE DEF tables
<1>6. JobFits(w)'
  BY <1>0, <1>1, <1>5 DEF JobFits, StepsOf, SessionKinds
<1>7. PendingLogin(w)' /\ PendingRevocations(w)'
  BY <1>0, <1>5 DEF WorkerInv, PendingLogin, PendingRevocations, Live
<1>8. PendingSession(w)' /\ PendingReceipt(w)' /\ BarredAreDisabled(w)'
  BY <1>0, <1>2, <1>5 DEF WorkerInv, PendingSession, PendingReceipt, BarredAreDisabled
<1>9. WorkerInv(w)'
  BY <1>5, <1>6, <1>7, <1>8 DEF WorkerInv, Outside
<1> QED BY <1>5, <1>9, TablesKept

-----------------------------------------------------------------------------
(***************************************************************************)
(* Webhooks and revoked memberships                                        *)
(***************************************************************************)

\* A transaction that sweeps holds no login and inserts no session.
LEMMA Sweeper ==
  ASSUME IndInv, NEW w \in Workers,
         pc[w] \in {"receipt", "disable", "unmember", "sweep", "sweeping"}
  PROVE  /\ job[w].kind \in {"webhook", "unmember"}
         /\ pc[w] \in {"receipt", "disable"} => job[w].kind = "webhook"
         /\ pc[w] = "unmember" => job[w].kind = "unmember"
         /\ tx[w].login = None /\ tx[w].session = None
<1>1. TypeOK /\ WorkerInv(w)
  BY DEF IndInv
<1>2. /\ job[w].kind \in {"webhook", "unmember"}
      /\ pc[w] \in {"receipt", "disable"} => job[w].kind = "webhook"
      /\ pc[w] = "unmember" => job[w].kind = "unmember"
  BY <1>1 DEF WorkerInv, JobFits, StepsOf, TypeOK, Job, Kinds
<1> QED BY <1>1, <1>2 DEF WorkerInv, PendingLogin, PendingSession

\* It goes on, with another row locked.
LEMMA SweeperGoesOn ==
  ASSUME IndInv, NEW w \in Workers,
         pc[w] \in {"receipt", "disable", "unmember", "sweep", "sweeping"},
         UNCHANGED <<clock, tables>>, TypeOK', KeepsOthers(w), LocksApart(w)',
         job'[w].kind = job[w].kind, job'[w].event = job[w].event,
         job'[w].user = job[w].user, job'[w].tenant = job[w].tenant,
         job'[w].barred = job[w].barred, job'[w].row = job[w].row,
         pc'[w] \in StepsOf(job[w].kind) \cap {"disable", "sweep", "sweeping", "commit"},
         pc'[w] = "disable" => /\ EventType[job[w].event] = "user.deleted"
                               /\ tx'[w].receipt = job[w].event,
         tx'[w].login = None, tx'[w].session = None,
         \A s \in tx'[w].revoked : s \in Sessions /\ Live(s),
         PendingReceipt(w)'
  PROVE  IndInv'
<1> USE DEF tables
<1>0. TypeOK /\ WorkerInv(w)
  BY DEF IndInv
<1>1. JobFits(w)'
  BY <1>0, Sweeper DEF WorkerInv, JobFits, SessionKinds
<1>2. PendingLogin(w)' /\ PendingRevocations(w)' /\ PendingSession(w)'
  BY Sweeper DEF PendingLogin, PendingRevocations, PendingSession, Live
<1>3. BarredAreDisabled(w)'
  BY <1>0 DEF WorkerInv, BarredAreDisabled
<1>4. WorkerInv(w)'
  BY <1>1, <1>2, <1>3 DEF WorkerInv, Outside
<1> QED BY <1>4, TablesKept

LEMMA SaveWebhookReceiptInv ==
  ASSUME IndInv, NEW w \in Workers, SaveWebhookReceipt(w)
  PROVE  IndInv'
<1> USE DEF tables
<1>0. TypeOK /\ WorkerInv(w) /\ pc[w] = "receipt" /\ tx[w] = NoTx
  BY DEF IndInv, SaveWebhookReceipt, WorkerInv, Outside
<1>1. PICK e : e = job[w].event
  OBVIOUS
<1>2. job[w].kind = "webhook" /\ e \in Events
  BY <1>0, <1>1, Sweeper DEF WorkerInv, JobFits
<1>3. UNCHANGED <<clock, tables, job>>
  BY DEF SaveWebhookReceipt
<1>4. CASE e \in receipts
  <2>1. TypeOK' /\ KeepsOthers(w) /\ pc'[w] = "commit" /\ tx'[w] = NoTx
    <3>1. GoTo(w, "commit") /\ UNCHANGED tx
      BY <1>1, <1>4 DEF SaveWebhookReceipt
    <3> QED BY <1>0, <1>3, <3>1, GoToType DEF TypeOK, Steps, KeepsOthers
  <2>2. LocksApart(w)'
    BY <2>1, FewerLocks DEF NoTx
  <2>3. PendingReceipt(w)'
    BY <2>1 DEF PendingReceipt, NoTx
  <2>4. "commit" \in StepsOf(job[w].kind)
    BY <1>2 DEF StepsOf
  <2> QED BY <1>0, <1>3, <2>1, <2>2, <2>3, <2>4, SweeperGoesOn DEF NoTx
<1>5. CASE e \notin receipts
  <2>1. PICK step : step = CASE EventType[e] = "session.revoked" -> "sweep"
                             [] EventType[e] = "user.deleted" -> "disable"
                             [] OTHER -> "commit"
    OBVIOUS
  <2>2. tx' = [tx EXCEPT ![w].receipt = e] /\ GoTo(w, step)
    BY <1>1, <1>5, <2>1 DEF SaveWebhookReceipt
  <2>3. step \in {"sweep", "disable", "commit"}
        /\ (EventType[e] = "user.deleted" <=> step = "disable")
    BY <2>1
  <2>4. PICK x : x = [NoTx EXCEPT !.receipt = e]
    OBVIOUS
  <2>5. x \in Tx /\ x.login = None /\ x.session = None /\ x.receipt = e /\ x.revoked = {}
    BY <1>2, <2>4 DEF NoTx, Tx
  <2>6. tx' = [tx EXCEPT ![w] = x]
    BY <1>0, <2>2, <2>4
  <2>7. TypeOK' /\ KeepsOthers(w) /\ pc'[w] = step /\ tx'[w] = x
    BY <1>0, <1>3, <2>2, <2>3, <2>5, <2>6, GoToType, TxEdit DEF TypeOK, Steps, KeepsOthers
  <2>8. LocksApart(w)'
    BY <2>5, <2>7 DEF LocksApart
  <2>9. PendingReceipt(w)'
    BY <1>1, <1>3, <2>3, <2>5, <2>7 DEF PendingReceipt
  <2>10. step \in StepsOf(job[w].kind)
    BY <1>2, <2>3 DEF StepsOf
  <2> QED BY <1>0, <1>1, <1>3, <2>3, <2>5, <2>7, <2>8, <2>9, <2>10, SweeperGoesOn
<1> QED BY <1>4, <1>5

LEMMA DisableIdentityInv ==
  ASSUME IndInv, NEW w \in Workers, DisableIdentity(w)
  PROVE  IndInv'
<1> USE DEF tables
<1>0. TypeOK /\ WorkerInv(w) /\ pc[w] = "disable"
  BY DEF IndInv, DisableIdentity
<1>1. PICK u : u = EventSubject[job[w].event]
  OBVIOUS
<1>2. /\ job[w].kind = "webhook" /\ job[w].event \in Events
      /\ EventType[job[w].event] = "user.deleted" /\ tx[w].receipt = job[w].event
      /\ tx[w].login = None /\ tx[w].session = None
  BY <1>0, Sweeper DEF WorkerInv, JobFits
<1>3. u \in Users
  BY <1>1, <1>2, IdentityAssumption
<1>4. tx' = [tx EXCEPT ![w].disabled = u] /\ GoTo(w, "sweep") /\ UNCHANGED <<clock, tables, job>>
  BY <1>1 DEF DisableIdentity
<1>5. PICK x : x = [tx[w] EXCEPT !.disabled = u]
  OBVIOUS
<1>6. tx[w] \in Tx
  BY <1>0 DEF TypeOK
<1>7. /\ x \in Tx /\ x.login = None /\ x.session = None /\ x.receipt = tx[w].receipt
      /\ x.revoked = tx[w].revoked /\ x.disabled = u
  BY <1>2, <1>3, <1>5, <1>6 DEF Tx
<1>8. tx' = [tx EXCEPT ![w] = x]
  BY <1>4, <1>5
<1>9. TypeOK' /\ KeepsOthers(w) /\ pc'[w] = "sweep" /\ tx'[w] = x
  BY <1>0, <1>4, <1>7, <1>8, GoToType, TxEdit DEF TypeOK, Steps, KeepsOthers
<1>10. LocksApart(w)'
  BY <1>7, <1>9, FewerLocks
<1>11. PendingReceipt(w)'
  BY <1>1, <1>2, <1>4, <1>7, <1>9 DEF PendingReceipt
<1>12. "sweep" \in StepsOf(job[w].kind) /\ \A s \in tx[w].revoked : s \in Sessions /\ Live(s)
  BY <1>0, <1>2 DEF StepsOf, WorkerInv, PendingRevocations
<1> QED BY <1>0, <1>4, <1>7, <1>9, <1>10, <1>11, <1>12, SweeperGoesOn

LEMMA RevokeMembershipInv ==
  ASSUME IndInv, NEW w \in Workers, RevokeMembership(w)
  PROVE  IndInv'
<1> USE DEF tables
<1>0. TypeOK /\ WorkerInv(w) /\ pc[w] = "unmember" /\ tx[w] = NoTx
  BY DEF IndInv, RevokeMembership, WorkerInv, Outside
<1>1. PICK m : m = <<job[w].user, job[w].tenant>>
  OBVIOUS
<1>2. job[w].kind = "unmember" /\ m \in Users \X Tenants
  BY <1>0, <1>1, Sweeper DEF WorkerInv, JobFits
<1>3. tx' = [tx EXCEPT ![w].member = m] /\ GoTo(w, "sweep") /\ UNCHANGED <<clock, tables, job>>
  BY <1>1 DEF RevokeMembership
<1>4. PICK x : x = [NoTx EXCEPT !.member = m]
  OBVIOUS
<1>5. x \in Tx /\ x.login = None /\ x.session = None /\ x.receipt = None /\ x.revoked = {}
  BY <1>2, <1>4 DEF NoTx, Tx
<1>6. tx' = [tx EXCEPT ![w] = x]
  BY <1>0, <1>3, <1>4
<1>7. TypeOK' /\ KeepsOthers(w) /\ pc'[w] = "sweep" /\ tx'[w] = x
  BY <1>0, <1>3, <1>5, <1>6, GoToType, TxEdit DEF TypeOK, Steps, KeepsOthers
<1>8. LocksApart(w)' /\ PendingReceipt(w)'
  BY <1>5, <1>7 DEF LocksApart, PendingReceipt
<1>9. "sweep" \in StepsOf(job[w].kind)
  BY <1>2 DEF StepsOf
<1> QED BY <1>0, <1>3, <1>5, <1>7, <1>8, <1>9, SweeperGoesOn

\* A sweep goes on: what it has read and what it has locked.
LEMMA SweepStep ==
  ASSUME IndInv, NEW w \in Workers, pc[w] \in {"sweep", "sweeping"},
         UNCHANGED <<clock, tables>>, TypeOK', KeepsOthers(w),
         NEW targets \in SUBSET Sessions, job' = [job EXCEPT ![w].target = targets],
         pc'[w] = "sweeping",
         tx'[w].login = tx[w].login, tx'[w].session = tx[w].session,
         tx'[w].receipt = tx[w].receipt, tx'[w].disabled = tx[w].disabled,
         \A s \in tx'[w].revoked : s \in Sessions /\ Live(s),
         LocksApart(w)'
  PROVE  IndInv'
<1>0. TypeOK /\ WorkerInv(w)
  BY DEF IndInv
<1>1. job[w] \in Job
  BY <1>0 DEF TypeOK
<1>2. job'[w] = [job[w] EXCEPT !.target = targets]
  BY <1>0 DEF TypeOK
<1>3. /\ job'[w].kind = job[w].kind /\ job'[w].event = job[w].event
      /\ job'[w].user = job[w].user /\ job'[w].tenant = job[w].tenant
      /\ job'[w].barred = job[w].barred /\ job'[w].row = job[w].row
  BY <1>1, <1>2 DEF Job
<1>4. PendingReceipt(w)'
  BY <1>0, <1>3 DEF WorkerInv, PendingReceipt
<1>5. "sweeping" \in StepsOf(job[w].kind) /\ tx[w].login = None /\ tx[w].session = None
  BY Sweeper DEF StepsOf
<1> QED BY <1>3, <1>4, <1>5, SweeperGoesOn

LEMMA StartSweepInv ==
  ASSUME IndInv, NEW w \in Workers, StartSweep(w)
  PROVE  IndInv'
<1> USE DEF tables
<1>0. TypeOK /\ WorkerInv(w) /\ pc[w] = "sweep"
  BY DEF IndInv, StartSweep
<1>1. PICK targets : targets = {s \in Sessions : Live(s) /\ InSweep(job[w], s)}
  OBVIOUS
<1>2. /\ targets \in SUBSET Sessions
      /\ job' = [job EXCEPT ![w].target = targets] /\ GoTo(w, "sweeping")
      /\ UNCHANGED <<clock, tables, tx>>
  BY <1>1 DEF StartSweep
<1>3. job' \in [Workers -> Job] /\ \A q \in Workers \ {w} : job'[q] = job[q]
  <2>1. job[w] \in Job
    BY <1>0 DEF TypeOK
  <2>2. [job[w] EXCEPT !.target = targets] \in Job
    BY <1>2, <2>1 DEF Job
  <2>3. job' = [job EXCEPT ![w] = [job[w] EXCEPT !.target = targets]]
    BY <1>2
  <2> QED BY <1>0, <2>2, <2>3 DEF TypeOK
<1>4. TypeOK' /\ KeepsOthers(w) /\ pc'[w] = "sweeping"
  BY <1>0, <1>2, <1>3, GoToType DEF TypeOK, Steps, KeepsOthers
<1>5. LocksApart(w)'
  BY <1>2, <1>4, FewerLocks
<1>6. \A s \in tx[w].revoked : s \in Sessions /\ Live(s)
  BY <1>0 DEF WorkerInv, PendingRevocations
<1> QED BY <1>0, <1>2, <1>4, <1>5, <1>6, SweepStep

LEMMA SweepSessionInv ==
  ASSUME IndInv, NEW w \in Workers, SweepSession(w)
  PROVE  IndInv'
<1> USE DEF tables
<1>0. TypeOK /\ WorkerInv(w) /\ pc[w] = "sweeping" /\ LockedApart
  BY DEF IndInv, SweepSession
<1>1. PICK s \in job[w].target :
        /\ ~SessionIsLocked(w, s)
        /\ tx' = [tx EXCEPT ![w].revoked = IF Live(s) THEN @ \cup {s} ELSE @]
        /\ job' = [job EXCEPT ![w].target = @ \ {s}]
  BY DEF SweepSession
<1>2. UNCHANGED <<clock, tables, pc>>
  BY DEF SweepSession
<1>3. job[w] \in Job /\ tx[w] \in Tx
  BY <1>0 DEF TypeOK
<1>4. PICK targets, more : /\ targets = job[w].target \ {s}
                           /\ more = IF Live(s) THEN tx[w].revoked \cup {s} ELSE tx[w].revoked
  OBVIOUS
<1>5. s \in Sessions /\ targets \in SUBSET Sessions /\ more \in SUBSET Sessions
  BY <1>1, <1>3, <1>4 DEF Job, Tx
<1>6. job' = [job EXCEPT ![w].target = targets] /\ tx' = [tx EXCEPT ![w].revoked = more]
  BY <1>1, <1>4
<1>7. job' \in [Workers -> Job] /\ \A q \in Workers \ {w} : job'[q] = job[q]
  <2>1. [job[w] EXCEPT !.target = targets] \in Job
    BY <1>3, <1>5 DEF Job
  <2>2. job' = [job EXCEPT ![w] = [job[w] EXCEPT !.target = targets]]
    BY <1>6
  <2> QED BY <1>0, <2>1, <2>2 DEF TypeOK
<1>8. PICK x : x = [tx[w] EXCEPT !.revoked = more]
  OBVIOUS
<1>9. /\ x \in Tx /\ x.login = tx[w].login /\ x.session = tx[w].session
      /\ x.receipt = tx[w].receipt /\ x.disabled = tx[w].disabled /\ x.revoked = more
  BY <1>3, <1>5, <1>8 DEF Tx
<1>10. tx' = [tx EXCEPT ![w] = x]
  BY <1>6, <1>8
<1>11. TypeOK' /\ KeepsOthers(w) /\ pc'[w] = "sweeping" /\ tx'[w] = x
  BY <1>0, <1>2, <1>7, <1>9, <1>10, TxEdit DEF TypeOK, KeepsOthers
<1>12. LocksApart(w)'
  <2>1. ASSUME NEW q \in Workers \ {w}
        PROVE  /\ tx[w].login # None => tx[w].login # tx[q].login
               /\ tx[w].session # None => tx[w].session # tx[q].session
               /\ more \cap tx[q].revoked = {}
               /\ tx'[q] = tx[q]
    BY <1>0, <1>1, <1>4, <1>11, <2>1 DEF LockedApart, KeepsOthers, SessionIsLocked, Others
  <2> QED BY <1>9, <1>11, <2>1 DEF LocksApart
<1>13. \A r \in more : r \in Sessions /\ Live(r)
  BY <1>0, <1>4, <1>5 DEF WorkerInv, PendingRevocations
<1> QED BY <1>0, <1>2, <1>5, <1>6, <1>9, <1>11, <1>12, <1>13, SweepStep

LEMMA RollbackInv ==
  ASSUME IndInv, NEW w \in Workers, Rollback(w)
  PROVE  IndInv'
<1> USE DEF tables
<1>1. TypeOK
  BY DEF IndInv
<1>2. tx' \in [Workers -> Tx] /\ tx'[w] = NoTx /\ \A q \in Workers \ {w} : tx'[q] = tx[q]
  BY <1>1, NoJobType, TxEdit DEF Rollback, Finish
<1> QED BY <1>2, AnswerStep DEF Rollback, Finish

-----------------------------------------------------------------------------
(***************************************************************************)
(* The statements that are committed at once                               *)
(***************************************************************************)

\* One row of a session that no other transaction has locked is updated in what
\* an UPDATE may change, and never back to life: the shape of lineages, and the
\* other handlers' view of them, stay.
LEMMA UpdateStep ==
  ASSUME IndInv, NEW w \in Workers, NEW s \in Sessions, NEW r \in Row,
         sessions[s] \in Row, SameSession(sessions[s], r),
         sessions[s].revoked => r.revoked, ~SessionIsLocked(w, s),
         sessions' = [sessions EXCEPT ![s] = r],
         UNCHANGED <<clock, users, members, logins, receipts>>,
         TypeOK', KeepsOthers(w), WorkerInv(w)', LocksApart(w)'
  PROVE  IndInv'
<1>0. TypeOK /\ sessions[s] # None /\ r # None
  BY RowType DEF IndInv
<1>1. /\ sessions'[s] = r
      /\ \A p \in Sessions : p # s => sessions'[p] = sessions[p]
      /\ \A p \in Sessions : sessions'[p] # None <=> sessions[p] # None
      /\ \A p \in Sessions : SameSession(sessions[p], sessions'[p])
      /\ \A p \in Sessions : sessions[p] # None /\ sessions[p].revoked => sessions'[p].revoked
  BY <1>0 DEF TypeOK, SameSession
<1>2. ASSUME NEW q \in Workers PROVE WorkerInv(q)'
  <2>1. CASE q = w
    BY <2>1
  <2>2. CASE q # w
    <3>1. Evolves
      BY <1>0, <1>1 DEF Evolves
    <3>2. tx[q].revoked \subseteq Sessions /\ s \notin tx[q].revoked
          /\ tx[q].session \in Sessions \cup {None}
      BY <1>0, <2>2 DEF SessionIsLocked, Others, TypeOK, Tx
    <3>3. KeepsLocked(q)
      BY <1>1, <3>2 DEF KeepsLocked, Live
    <3> QED BY <2>2, <3>1, <3>3, OtherWorker DEF KeepsOthers
  <2> QED BY <2>1, <2>2
<1>3. LockedApart'
  BY ApartStep
<1>4. Ancestry'
  <2>0. Ancestry
    BY DEF IndInv
  <2>1. SUFFICES ASSUME NEW p \in Sessions, sessions'[p] # None
                 PROVE  /\ logins'[sessions'[p].login] # None
                        /\ logins'[sessions'[p].login].consumed
                        /\ sessions'[p].from # None =>
                             /\ sessions'[sessions'[p].from] # None
                             /\ sessions'[sessions'[p].from].revoked
                             /\ sessions'[sessions'[p].from].login = sessions'[p].login
    BY DEF Ancestry
  <2>2. /\ sessions[p] # None /\ sessions[p] \in Row
        /\ sessions'[p].login = sessions[p].login /\ sessions'[p].from = sessions[p].from
    BY <1>0, <1>1, <2>1 DEF SameSession, TypeOK
  <2>3. logins[sessions[p].login] # None /\ logins[sessions[p].login].consumed
    BY <2>0, <2>2 DEF Ancestry
  <2>4. CASE sessions[p].from # None
    <3>1. PICK f : f = sessions[p].from
      OBVIOUS
    <3>2. /\ f \in Sessions /\ sessions[f] # None /\ sessions[f].revoked
          /\ sessions[f].login = sessions[p].login
      BY <2>0, <2>2, <2>4, <3>1, RowType DEF Ancestry
    <3>3. sessions'[f] # None /\ sessions'[f].revoked /\ sessions'[f].login = sessions[f].login
      BY <1>1, <3>2 DEF SameSession
    <3> QED BY <2>2, <2>3, <3>1, <3>2, <3>3
  <2> QED BY <2>2, <2>3, <2>4
<1>5. LineageIsLinear'
  BY <1>1 DEF IndInv, LineageIsLinear, SameSession
<1>6. OneLiveSessionPerLogin'
  BY <1>1 DEF IndInv, OneLiveSessionPerLogin, SameSession, Live
<1>7. ReceiptImpliesEffect'
  BY DEF IndInv, ReceiptImpliesEffect
<1> QED BY <1>2, <1>3, <1>4, <1>5, <1>6, <1>7 DEF IndInv

LEMMA ExpireSessionInv ==
  ASSUME IndInv, NEW w \in Workers, ExpireSession(w)
  PROVE  IndInv'
<1>0. TypeOK /\ WorkerInv(w) /\ pc[w] = "expire" /\ pc[w] \in Reading
  BY DEF IndInv, ExpireSession, Reading
<1>1. PICK s : s = job[w].session
  OBVIOUS
<1>2. s \in Sessions /\ sessions[s] \in Row /\ tx[w] = NoTx
  BY <1>0, <1>1, Reader
<1>3. /\ sessions' = IF Live(s) THEN [sessions EXCEPT ![s].revoked = TRUE] ELSE sessions
      /\ ~SessionIsLocked(w, s) /\ Answer(w)
      /\ UNCHANGED <<clock, users, members, logins, receipts, tx>>
  BY <1>1 DEF ExpireSession
<1>4. PICK r : r = IF Live(s) THEN [sessions[s] EXCEPT !.revoked = TRUE] ELSE sessions[s]
  OBVIOUS
<1>5. r \in Row /\ SameSession(sessions[s], r) /\ (sessions[s].revoked => r.revoked)
  BY <1>2, <1>4, RevokedRow DEF SameSession
<1>6. sessions' = [sessions EXCEPT ![s] = r]
  BY <1>0, <1>2, <1>3, <1>4 DEF TypeOK
<1>7. TypeOK' /\ KeepsOthers(w) /\ pc'[w] = "idle" /\ job'[w] = NoJob
  <2>1. sessions' \in [Sessions -> Row \cup {None}]
    BY <1>0, <1>5, <1>6 DEF TypeOK
  <2>2. /\ pc' \in [Workers -> Steps] /\ job' \in [Workers -> Job]
       /\ pc'[w] = "idle" /\ job'[w] = NoJob
       /\ \A q \in Workers \ {w} : pc'[q] = pc[q] /\ job'[q] = job[q]
    BY <1>0, <1>3, AnswerType
  <2>3. TypeOK'
    BY <1>0, <1>3, <2>1, <2>2 DEF TypeOK
  <2> QED BY <1>3, <2>2, <2>3 DEF KeepsOthers
<1>8. WorkerInv(w)' /\ LocksApart(w)'
  BY <1>2, <1>3, <1>7, AnswerInv, FewerLocks DEF NoTx
<1> QED BY <1>2, <1>3, <1>5, <1>6, <1>7, <1>8, UpdateStep

LEMMA TouchSessionInv ==
  ASSUME IndInv, NEW w \in Workers, TouchSession(w)
  PROVE  IndInv'
<1>0. TypeOK /\ WorkerInv(w) /\ pc[w] = "touch" /\ pc[w] \in Reading
  BY DEF IndInv, TouchSession, Reading
<1>1. PICK s, read, now : s = job[w].session /\ read = job[w].row /\ now = job[w].now
  OBVIOUS
<1>2. /\ s \in Sessions /\ sessions[s] \in Row /\ read \in Row /\ now \in Nat
      /\ SameSession(read, sessions[s]) /\ tx[w] = NoTx /\ job[w].kind \in SessionKinds
  BY <1>0, <1>1, Reader DEF TypeOK, Job
<1>3. /\ sessions' = [sessions EXCEPT ![s] = Touched(sessions[s], read, now)]
      /\ ~SessionIsLocked(w, s)
      /\ UNCHANGED <<clock, users, members, logins, receipts, tx>>
  BY <1>1 DEF TouchSession
<1>4. PICK r : r = Touched(sessions[s], read, now)
  OBVIOUS
<1>5. /\ r \in Row /\ SameSession(sessions[s], r) /\ (sessions[s].revoked => r.revoked)
      /\ SameSession(read, r)
  BY <1>2, <1>4, TouchedRow, SameSessionTrans
<1>6. sessions' = [sessions EXCEPT ![s] = r]
  BY <1>3, <1>4
<1>7. CASE Answer(w)
  <2>1. TypeOK' /\ KeepsOthers(w) /\ pc'[w] = "idle" /\ job'[w] = NoJob
    <3>1. sessions' \in [Sessions -> Row \cup {None}]
      BY <1>0, <1>5, <1>6 DEF TypeOK
    <3>2. /\ pc' \in [Workers -> Steps] /\ job' \in [Workers -> Job]
         /\ pc'[w] = "idle" /\ job'[w] = NoJob
         /\ \A q \in Workers \ {w} : pc'[q] = pc[q] /\ job'[q] = job[q]
      BY <1>0, <1>7, AnswerType
    <3>3. TypeOK'
      BY <1>0, <1>3, <3>1, <3>2 DEF TypeOK
    <3> QED BY <1>3, <3>2, <3>3 DEF KeepsOthers
  <2>2. WorkerInv(w)' /\ LocksApart(w)'
    BY <1>2, <1>3, <2>1, AnswerInv, FewerLocks DEF NoTx
  <2> QED BY <1>2, <1>3, <1>5, <1>6, <2>1, <2>2, UpdateStep
<1>8. CASE ~Answer(w)
  <2>1. job[w].kind # "access" /\ GoTo(w, "csrf") /\ UNCHANGED job
    BY <1>8 DEF TouchSession
  <2>2. TypeOK' /\ KeepsOthers(w) /\ pc'[w] = "csrf" /\ sessions'[s] = r
    BY <1>0, <1>2, <1>3, <1>5, <1>6, <2>1, GoToType DEF TypeOK, Steps, KeepsOthers
  <2>3. JobFits(w)'
    <3>1. "csrf" \in StepsOf(job[w].kind)
      BY <1>2, <2>1 DEF StepsOf, SessionKinds
    <3> QED BY <1>1, <1>2, <1>5, <2>1, <2>2, <3>1, RowType DEF JobFits, SessionKinds
  <2>4. BarredAreDisabled(w)'
    BY <1>0, <1>3, <2>1, <2>2 DEF WorkerInv, BarredAreDisabled
  <2>5. WorkerInv(w)' /\ LocksApart(w)'
    BY <1>2, <1>3, <2>2, <2>3, <2>4, OutsideInv, FewerLocks DEF Outside, NoTx
  <2> QED BY <1>2, <1>3, <1>5, <1>6, <2>2, <2>5, UpdateStep
<1> QED BY <1>7, <1>8

-----------------------------------------------------------------------------
(***************************************************************************)
(* The commit of a transaction                                             *)
(***************************************************************************)

\* What a commit makes of the tables.
LEMMA CommitTables ==
  ASSUME IndInv, NEW w \in Workers, Commit(w), NEW x, x = tx[w]
  PROVE  /\ TypeOK' /\ KeepsOthers(w) /\ WorkerInv(w)' /\ LocksApart(w)'
         /\ \A p \in Sessions : sessions[p] # None =>
              /\ sessions[p] \in Row
              /\ p # x.session
              /\ sessions'[p] = IF p \in x.revoked THEN [sessions[p] EXCEPT !.revoked = TRUE]
                                                   ELSE sessions[p]
         /\ \A p \in Sessions : sessions[p] = None =>
              sessions'[p] = IF p = x.session THEN x.row ELSE None
         /\ \A l \in Logins : logins[l] # None =>
              /\ logins'[l] # None
              /\ logins'[l].consumed <=> (logins[l].consumed \/ l = x.login)
         /\ \A u \in Users : users[u] = "disabled" \/ u = x.disabled => users'[u] = "disabled"
         /\ receipts' \subseteq receipts \cup {x.receipt} /\ receipts' \subseteq Events
         /\ x.receipt = None => receipts' = receipts
         /\ UNCHANGED clock
<1>0. TypeOK /\ WorkerInv(w)
  BY DEF IndInv
<1>1. x \in Tx
  BY <1>0 DEF TypeOK
<1>2. /\ \A s \in x.revoked : s \in Sessions /\ sessions[s] # None /\ ~sessions[s].revoked
      /\ x.session # None => sessions[x.session] = None /\ x.row \in Row
      /\ x.login # None => x.login \in Logins /\ logins[x.login] # None
  BY <1>0, <1>1 DEF WorkerInv, PendingRevocations, PendingSession, PendingLogin, JobFits, Live
<1>3. /\ sessions' = [s \in Sessions |->
                        IF s = x.session THEN x.row
                        ELSE IF s \in x.revoked THEN [sessions[s] EXCEPT !.revoked = TRUE]
                        ELSE sessions[s]]
      /\ logins' = [l \in Logins |-> IF l = x.login THEN [logins[l] EXCEPT !.consumed = TRUE]
                                                    ELSE logins[l]]
      /\ users' = [u \in Users |-> IF u = x.disabled THEN "disabled" ELSE users[u]]
      /\ members' = members \ {x.member}
      /\ receipts' = IF x.receipt = None THEN receipts ELSE receipts \cup {x.receipt}
      /\ Answer(w) /\ tx' = [tx EXCEPT ![w] = NoTx] /\ UNCHANGED clock
  BY DEF Commit, Finish
<1>4. None \notin Sessions /\ None \notin Logins
  BY IdentityAssumption
<1>5. \A p \in Sessions : sessions[p] # None =>
        /\ sessions[p] \in Row
        /\ p # x.session
        /\ sessions'[p] = IF p \in x.revoked THEN [sessions[p] EXCEPT !.revoked = TRUE]
                                             ELSE sessions[p]
  BY <1>0, <1>2, <1>3, <1>4 DEF TypeOK
<1>6. \A p \in Sessions : sessions[p] = None =>
        sessions'[p] = IF p = x.session THEN x.row ELSE None
  BY <1>2, <1>3
<1>7. sessions' \in [Sessions -> Row \cup {None}]
  <2>1. ASSUME NEW p \in Sessions PROVE sessions'[p] \in Row \cup {None}
    <3>1. CASE sessions[p] # None
      BY <1>5, <3>1, RevokedRow
    <3>2. CASE sessions[p] = None
      BY <1>2, <1>4, <1>6, <3>2
    <3> QED BY <3>1, <3>2
  <2>2. sessions' = [p \in Sessions |-> sessions'[p]]
    BY <1>3
  <2> QED BY <2>1, <2>2
<1>8. \A l \in Logins : logins[l] # None =>
        /\ logins'[l] \in [expires : Nat, consumed : BOOLEAN]
        /\ logins'[l].consumed <=> (logins[l].consumed \/ l = x.login)
  BY <1>0, <1>3 DEF TypeOK
<1>9. logins' \in [Logins -> [expires : Nat, consumed : BOOLEAN] \cup {None}]
  <2>1. ASSUME NEW l \in Logins
        PROVE  logins'[l] \in [expires : Nat, consumed : BOOLEAN] \cup {None}
    <3>1. CASE logins[l] # None
      BY <1>8, <3>1
    <3>2. CASE logins[l] = None
      BY <1>2, <1>3, <1>4, <3>2
    <3> QED BY <3>1, <3>2
  <2>2. logins' = [l \in Logins |-> logins'[l]]
    BY <1>3
  <2> QED BY <2>1, <2>2
<1>10. /\ tx' \in [Workers -> Tx] /\ tx'[w] = NoTx
       /\ \A q \in Workers \ {w} : tx'[q] = tx[q]
  BY <1>0, <1>3, NoJobType, TxEdit
<1>11. /\ users' \in [Users -> {"active", "disabled"}] /\ members' \subseteq Users \X Tenants
       /\ receipts' \subseteq Events
       /\ \A u \in Users : users[u] = "disabled" \/ u = x.disabled => users'[u] = "disabled"
  BY <1>0, <1>1, <1>3 DEF TypeOK, Tx
<1>12. TypeOK' /\ KeepsOthers(w) /\ pc'[w] = "idle" /\ job'[w] = NoJob
  BY <1>0, <1>3, <1>7, <1>9, <1>10, <1>11, AnswerType DEF TypeOK, KeepsOthers
<1>13. WorkerInv(w)' /\ LocksApart(w)'
  BY <1>10, <1>12, AnswerInv, FewerLocks DEF NoTx
<1>14. \A l \in Logins : logins[l] # None =>
         /\ logins'[l] # None
         /\ logins'[l].consumed <=> (logins[l].consumed \/ l = x.login)
  BY <1>8, NullAssumption
<1>15. /\ receipts' \subseteq receipts \cup {x.receipt} /\ UNCHANGED clock
       /\ x.receipt = None => receipts' = receipts
  BY <1>3
<1> HIDE DEF Row
<1> QED BY <1>5, <1>6, <1>11, <1>12, <1>13, <1>14, <1>15

\* A commit brings at most one new session, which no other session of its login
\* competes with: the login was unmarked, or its predecessor was live until now.
LEMMA CommitSession ==
  ASSUME IndInv, NEW w \in Workers, Commit(w), tx[w].session \in Sessions,
         NEW p \in Sessions, sessions[p] # None, sessions[p].login = tx[w].row.login
  PROVE  /\ sessions[p].from # tx[w].row.from
         /\ sessions'[p].revoked
<1>0. TypeOK /\ WorkerInv(w) /\ Ancestry /\ OneLiveSessionPerLogin
  BY DEF IndInv
<1>1. tx[w].session # None /\ sessions[p] \in Row
  BY <1>0, IdentityAssumption DEF TypeOK
<1>2. logins[sessions[p].login].consumed
  BY <1>0 DEF Ancestry
<1>3. CASE job[w].kind = "login"
  BY <1>0, <1>1, <1>2, <1>3, LoginWorker DEF WorkerInv, PendingSession
<1>4. CASE job[w].kind # "login"
  <2>1. PICK f : f = job[w].session
    OBVIOUS
  <2>2. /\ job[w].kind = "refresh" /\ tx[w].row.login = job[w].row.login
        /\ tx[w].row.from = f /\ pc[w] = "commit"
    BY <1>0, <1>1, <1>4, <2>1 DEF WorkerInv, PendingSession
  <2>3. /\ f \in Sessions /\ sessions[f] # None /\ sessions[f].login = job[w].row.login
        /\ tx[w].revoked = {f}
    BY <1>0, <2>1, <2>2 DEF WorkerInv, JobFits, SessionKinds, SameSession, PendingRevocations
  <2>4. Live(f)
    BY <1>0, <2>3 DEF WorkerInv, PendingRevocations
  <2>5. sessions[p].from # f
    BY <1>0, <2>3, <2>4, IdentityAssumption DEF Ancestry, Live
  <2>6. p = f \/ sessions[p].revoked
    BY <1>0, <2>2, <2>3, <2>4 DEF OneLiveSessionPerLogin, Live
  <2>7. sessions'[p] = IF p \in tx[w].revoked THEN [sessions[p] EXCEPT !.revoked = TRUE]
                                              ELSE sessions[p]
    BY CommitTables
  <2> QED BY <1>1, <2>2, <2>3, <2>5, <2>6, <2>7, RevokedRow
<1> QED BY <1>3, <1>4

LEMMA CommitInv ==
  ASSUME IndInv, NEW w \in Workers, Commit(w)
  PROVE  IndInv'
<1>0. TypeOK /\ WorkerInv(w) /\ Ancestry /\ LockedApart
  BY DEF IndInv
<1>1. PICK x : x = tx[w]
  OBVIOUS
<1>2. /\ TypeOK' /\ KeepsOthers(w) /\ WorkerInv(w)' /\ LocksApart(w)'
      /\ \A p \in Sessions : sessions[p] # None =>
           /\ sessions[p] \in Row
           /\ p # x.session
           /\ sessions'[p] = IF p \in x.revoked THEN [sessions[p] EXCEPT !.revoked = TRUE]
                                                ELSE sessions[p]
      /\ \A p \in Sessions : sessions[p] = None =>
           sessions'[p] = IF p = x.session THEN x.row ELSE None
      /\ \A l \in Logins : logins[l] # None =>
           /\ logins'[l] # None
           /\ logins'[l].consumed <=> (logins[l].consumed \/ l = x.login)
      /\ \A u \in Users : users[u] = "disabled" \/ u = x.disabled => users'[u] = "disabled"
      /\ receipts' \subseteq receipts \cup {x.receipt} /\ receipts' \subseteq Events
      /\ x.receipt = None => receipts' = receipts
  BY <1>1, CommitTables
<1>3. \A p \in Sessions : sessions[p] # None =>
        /\ sessions'[p] # None /\ SameSession(sessions[p], sessions'[p])
        /\ sessions'[p].revoked <=> (sessions[p].revoked \/ p \in x.revoked)
  <2>1. SUFFICES ASSUME NEW p \in Sessions, sessions[p] # None
                 PROVE  /\ sessions'[p] # None /\ SameSession(sessions[p], sessions'[p])
                        /\ sessions'[p].revoked <=> (sessions[p].revoked \/ p \in x.revoked)
    OBVIOUS
  <2>2. CASE p \in x.revoked
    <3>1. sessions[p] \in Row /\ sessions'[p] = [sessions[p] EXCEPT !.revoked = TRUE]
      BY <1>2, <2>1, <2>2
    <3> QED BY <2>2, <3>1, RevokedRow
  <2>3. CASE p \notin x.revoked
    BY <1>2, <2>1, <2>3 DEF SameSession
  <2> QED BY <2>2, <2>3
<1>4. ASSUME NEW q \in Workers PROVE WorkerInv(q)'
  <2>1. CASE q = w
    BY <1>2, <2>1
  <2>2. CASE q # w
    <3>1. Evolves
      BY <1>2, <1>3 DEF Evolves
    <3>2. /\ x.login # None => x.login # tx[q].login
          /\ x.session # None => x.session # tx[q].session
          /\ x.revoked \cap tx[q].revoked = {}
      BY <1>0, <1>1, <2>2 DEF LockedApart
    <3>3. WorkerInv(q) /\ tx[q] \in Tx
      BY <1>0 DEF IndInv, TypeOK
    <3>4. KeepsLocked(q)
      <4>1. \A s \in tx[q].revoked : Live(s) => sessions'[s] # None /\ ~sessions'[s].revoked
        BY <1>3, <3>2, <3>3 DEF Live, Tx
      <4>2. (tx[q].session # None /\ sessions[tx[q].session] = None) =>
              sessions'[tx[q].session] = None
        BY <1>2, <3>2, <3>3, IdentityAssumption DEF Tx
      <4>3. (tx[q].login # None /\ ~logins[tx[q].login].consumed) =>
              ~logins'[tx[q].login].consumed
        BY <1>2, <3>2, <3>3 DEF WorkerInv, PendingLogin, JobFits
      <4> QED BY <4>1, <4>2, <4>3 DEF KeepsLocked
    <3> QED BY <1>2, <2>2, <3>1, <3>4, OtherWorker DEF KeepsOthers
  <2> QED BY <2>1, <2>2
<1>5. LockedApart'
  BY <1>2, ApartStep
<1>6. \A p \in Sessions : sessions[p] = None /\ sessions'[p] # None =>
        /\ p = x.session /\ sessions'[p] = x.row /\ x.row \in Row
        /\ x.session # None
  BY <1>0, <1>1, <1>2, IdentityAssumption DEF WorkerInv, PendingSession
<1>7. Ancestry'
  <2>1. SUFFICES ASSUME NEW p \in Sessions, sessions'[p] # None
                 PROVE  /\ logins'[sessions'[p].login] # None
                        /\ logins'[sessions'[p].login].consumed
                        /\ sessions'[p].from # None =>
                             /\ sessions'[sessions'[p].from] # None
                             /\ sessions'[sessions'[p].from].revoked
                             /\ sessions'[sessions'[p].from].login = sessions'[p].login
    BY DEF Ancestry
  <2>2. \A s \in Sessions : sessions[s] # None =>
          /\ sessions[s].login \in Logins /\ logins'[sessions[s].login] # None
          /\ logins'[sessions[s].login].consumed
    BY <1>0, <1>2, RowType DEF Ancestry
  <2>3. CASE sessions[p] # None
    <3>1. PICK f : f = sessions[p].from
      OBVIOUS
    <3>2. sessions'[p].login = sessions[p].login /\ sessions'[p].from = f
      BY <1>3, <2>3, <3>1 DEF SameSession
    <3>3. f # None => /\ f \in Sessions /\ sessions[f] # None /\ sessions[f].revoked
                      /\ sessions[f].login = sessions[p].login
      BY <1>0, <1>2, <2>3, <3>1, RowType DEF Ancestry
    <3>4. f # None => /\ sessions'[f] # None /\ sessions'[f].revoked
                      /\ sessions'[f].login = sessions[p].login
      BY <1>3, <3>3 DEF SameSession
    <3> QED BY <2>2, <2>3, <3>2, <3>4
  <2>4. CASE sessions[p] = None
    <3>1. p = x.session /\ sessions'[p] = x.row /\ x.row \in Row /\ x.session # None
      BY <1>6, <2>1, <2>4
    <3>2. CASE job[w].kind = "login"
      <4>1. x.row.login = job[w].login /\ x.row.from = None /\ pc[w] # "consume"
        BY <1>0, <1>1, <3>1, <3>2 DEF WorkerInv, PendingSession
      <4>2. /\ job[w].login \in Logins /\ logins[job[w].login] # None
            /\ x.login = job[w].login
        BY <1>1, <3>2, <4>1, LoginWorker
      <4> QED BY <1>2, <3>1, <4>1, <4>2
    <3>3. CASE job[w].kind # "login"
      <4>1. PICK f : f = job[w].session
        OBVIOUS
      <4>2. /\ job[w].kind = "refresh" /\ x.row.login = job[w].row.login
            /\ x.row.from = f /\ pc[w] = "commit"
        BY <1>0, <1>1, <3>1, <3>3, <4>1 DEF WorkerInv, PendingSession
      <4>3. /\ f \in Sessions /\ sessions[f] # None /\ sessions[f].login = job[w].row.login
            /\ x.revoked = {f}
        BY <1>0, <1>1, <4>1, <4>2
           DEF WorkerInv, JobFits, SessionKinds, SameSession, PendingRevocations
      <4>4. /\ sessions'[f] # None /\ sessions'[f].revoked
            /\ sessions'[f].login = x.row.login
        BY <1>3, <4>2, <4>3 DEF SameSession
      <4> QED BY <2>2, <3>1, <4>2, <4>3, <4>4
    <3> QED BY <3>2, <3>3
  <2> QED BY <2>3, <2>4
<1>8. \A p, n \in Sessions :
        (sessions[p] # None /\ sessions[n] = None /\ sessions'[n] # None
           /\ sessions'[p].login = sessions'[n].login) =>
        sessions'[p].from # sessions'[n].from /\ sessions'[p].revoked
  BY <1>1, <1>3, <1>6, CommitSession DEF SameSession
<1>9. LineageIsLinear'
  <2>0. LineageIsLinear
    BY DEF IndInv
  <2>1. SUFFICES ASSUME NEW s1 \in Sessions, NEW s2 \in Sessions,
                        sessions'[s1] # None, sessions'[s2] # None,
                        sessions'[s1].login = sessions'[s2].login,
                        sessions'[s1].from = sessions'[s2].from
                 PROVE  s1 = s2
    BY DEF LineageIsLinear
  <2>2. CASE sessions[s1] # None /\ sessions[s2] # None
    BY <1>3, <2>0, <2>1, <2>2 DEF LineageIsLinear, SameSession
  <2>3. CASE sessions[s1] = None /\ sessions[s2] = None
    BY <1>6, <2>1, <2>3
  <2>4. CASE sessions[s1] = None <=> sessions[s2] # None
    BY <1>8, <2>1, <2>4
  <2> QED BY <2>2, <2>3, <2>4
<1>10. OneLiveSessionPerLogin'
  <2>0. OneLiveSessionPerLogin
    BY DEF IndInv
  <2>1. SUFFICES ASSUME NEW s1 \in Sessions, NEW s2 \in Sessions,
                        sessions'[s1] # None, sessions'[s2] # None,
                        ~sessions'[s1].revoked, ~sessions'[s2].revoked,
                        sessions'[s1].login = sessions'[s2].login
                 PROVE  s1 = s2
    BY DEF OneLiveSessionPerLogin, Live
  <2>2. CASE sessions[s1] # None /\ sessions[s2] # None
    BY <1>3, <2>0, <2>1, <2>2 DEF OneLiveSessionPerLogin, SameSession, Live
  <2>3. CASE sessions[s1] = None /\ sessions[s2] = None
    BY <1>6, <2>1, <2>3
  <2>4. CASE sessions[s1] = None <=> sessions[s2] # None
    BY <1>8, <2>1, <2>4
  <2> QED BY <2>2, <2>3, <2>4
<1>11. ReceiptImpliesEffect'
  <2>0. ReceiptImpliesEffect
    BY DEF IndInv
  <2>1. SUFFICES ASSUME NEW e \in receipts', EventType[e] = "user.deleted"
                 PROVE  users'[EventSubject[e]] = "disabled"
    BY DEF ReceiptImpliesEffect
  <2>2. e \in Events /\ EventSubject[e] \in Users
    BY <1>2, <2>1, IdentityAssumption
  <2>3. CASE e \in receipts
    BY <1>2, <2>0, <2>1, <2>2, <2>3 DEF ReceiptImpliesEffect
  <2>4. CASE e \notin receipts
    <3>1. e = x.receipt /\ x.receipt # None
      BY <1>2, <2>1, <2>4
    <3>2. pc[w] # "disable"
      BY DEF Commit
    <3>3. x.disabled = EventSubject[e]
      BY <1>0, <1>1, <2>1, <3>1, <3>2 DEF WorkerInv, PendingReceipt
    <3> QED BY <1>2, <2>2, <3>3
  <2> QED BY <2>3, <2>4
<1> QED BY <1>2, <1>4, <1>5, <1>7, <1>9, <1>10, <1>11 DEF IndInv

-----------------------------------------------------------------------------
(***************************************************************************)
(* The theorems                                                            *)
(***************************************************************************)
LEMMA InitInv == Init => IndInv
<1> SUFFICES ASSUME Init PROVE IndInv
  OBVIOUS
<1>1. TypeOK
  BY NoJobType, IdentityAssumption DEF Init, TypeOK, Steps
<1>2. ASSUME NEW w \in Workers PROVE WorkerInv(w)
  BY DEF Init, WorkerInv, JobFits, StepsOf, SessionKinds, PendingLogin, PendingRevocations,
         PendingSession, PendingReceipt, BarredAreDisabled, NoJob, NoTx
<1>3. LockedApart
  BY DEF Init, LockedApart, NoTx
<1>4. Ancestry /\ LineageIsLinear /\ OneLiveSessionPerLogin /\ ReceiptImpliesEffect
  BY DEF Init, Ancestry, LineageIsLinear, OneLiveSessionPerLogin, ReceiptImpliesEffect, Live
<1> QED BY <1>1, <1>2, <1>3, <1>4 DEF IndInv

\* A login may begin while others are under way.
LEMMA StartIdentityLoginInv ==
  ASSUME IndInv, NEW l \in Logins, StartIdentityLogin(l)
  PROVE  IndInv'
<1>0. TypeOK
  BY DEF IndInv
<1>1. /\ logins[l] = None
      /\ logins' = [logins EXCEPT ![l] = [expires |-> clock + LoginTimeout, consumed |-> FALSE]]
      /\ UNCHANGED <<clock, users, members, sessions, receipts, pc, job, tx>>
  BY DEF StartIdentityLogin
<1>2. TypeOK'
  <2>1. [expires |-> clock + LoginTimeout, consumed |-> FALSE] \in [expires : Nat, consumed : BOOLEAN]
    BY <1>0, IdentityAssumption DEF TypeOK
  <2> QED BY <1>0, <1>1, <2>1 DEF TypeOK
<1>3. \A k \in Logins : logins[k] # None => logins'[k] = logins[k]
  BY <1>0, <1>1 DEF TypeOK
<1>4. ASSUME NEW q \in Workers PROVE WorkerInv(q)'
  <2>1. Evolves
    BY <1>1, <1>3 DEF Evolves, SameSession
  <2>2. KeepsLocked(q)
    BY <1>1, <1>3 DEF IndInv, WorkerInv, PendingLogin, JobFits, KeepsLocked, Live
  <2> QED BY <1>1, <2>1, <2>2, OtherWorker
<1>5. LockedApart'
  BY <1>1 DEF IndInv, LockedApart
<1>6. Ancestry'
  <2>1. \A s \in Sessions : sessions[s] # None => sessions[s].login \in Logins
    BY <1>0, RowType DEF TypeOK
  <2> QED BY <1>1, <1>3, <2>1 DEF IndInv, Ancestry
<1>7. LineageIsLinear' /\ OneLiveSessionPerLogin' /\ ReceiptImpliesEffect'
  BY <1>1 DEF IndInv, LineageIsLinear, OneLiveSessionPerLogin, ReceiptImpliesEffect, Live
<1> QED BY <1>2, <1>4, <1>5, <1>6, <1>7 DEF IndInv

\* The clock and a stuttering step change nothing the invariant speaks of.
LEMMA IdleInv ==
  ASSUME IndInv, clock' \in Nat, UNCHANGED <<tables, pc, job, tx>>
  PROVE  IndInv'
<1> USE DEF tables
<1>1. TypeOK'
  BY DEF IndInv, TypeOK
<1>2. ASSUME NEW q \in Workers PROVE WorkerInv(q)'
  <2>1. Evolves /\ KeepsLocked(q)
    BY DEF Evolves, KeepsLocked, SameSession, Live
  <2> QED BY <2>1, OtherWorker
<1>3. LockedApart' /\ Ancestry'
  BY DEF IndInv, LockedApart, Ancestry
<1>4. LineageIsLinear' /\ OneLiveSessionPerLogin' /\ ReceiptImpliesEffect'
  BY DEF IndInv, LineageIsLinear, OneLiveSessionPerLogin, ReceiptImpliesEffect, Live
<1> QED BY <1>1, <1>2, <1>3, <1>4 DEF IndInv

LEMMA NextInv == IndInv /\ [Next]_vars => IndInv'
<1> SUFFICES ASSUME IndInv, [Next]_vars PROVE IndInv'
  OBVIOUS
<1>0. clock \in Nat
  BY DEF IndInv, TypeOK
<1>1. CASE Tick \/ UNCHANGED vars
  BY <1>0, <1>1, IdleInv DEF Tick, vars, tables
<1>2. CASE \E l \in Logins : StartIdentityLogin(l)
  BY <1>2, StartIdentityLoginInv
<1>3. ASSUME NEW w \in Workers, Request(w) \/ Step(w) \/ Rollback(w) PROVE IndInv'
  <2>1. CASE Request(w)
    BY <2>1, RequestInv
  <2>2. CASE Rollback(w)
    BY <2>2, RollbackInv
  <2>3. CASE Step(w)
    BY <2>3, ReadSessionInv, ExpireSessionInv, GetIdentityInv, ListActiveMembershipsInv,
       TouchSessionInv, VerifyCsrfInv, RevokeSessionInv, ConsumeInv, UpsertInv,
       CompleteLoginInv, RotateSessionInv, SaveWebhookReceiptInv, DisableIdentityInv,
       RevokeMembershipInv, StartSweepInv, SweepSessionInv, CommitInv DEF Step
  <2> QED BY <1>3, <2>1, <2>2, <2>3
<1> QED BY <1>1, <1>2, <1>3 DEF Next

\* What every state of the session store satisfies: handlers are at a statement
\* of their request, what a transaction found under a lock still holds, no two
\* hold the same row, and a session goes back to a marked login through revoked
\* sessions of the same login.
THEOREM InvariantHolds == Spec => []IndInv
BY InitInv, NextInv, PTL DEF Spec

\* A login leads to one session and a session is rotated into at most one other,
\* however callbacks and refreshes with the same state or cookie interleave,
\* fail and are repeated (consumeOAuthTransaction, rotateApplicationSession).
THEOREM LineageStaysLinear == Spec => []LineageIsLinear
<1>1. IndInv => LineageIsLinear
  BY DEF IndInv
<1> QED BY <1>1, InvariantHolds, PTL

\* At most one session that goes back to a login is live at any time.
THEOREM OneLiveSession == Spec => []OneLiveSessionPerLogin
<1>1. IndInv => OneLiveSessionPerLogin
  BY DEF IndInv
<1> QED BY <1>1, InvariantHolds, PTL

\* A user.deleted event whose receipt is committed has disabled its user, and no
\* request that came in after a user was disabled is authorised for that user.
THEOREM DisablingIsFinal == Spec => []DisabledIsFinal
<1>1. IndInv => DisabledIsFinal
  BY DEF IndInv, WorkerInv, BarredAreDisabled, DisabledIsFinal, DisabledNeverAuthorized
<1> QED BY <1>1, InvariantHolds, PTL

\* What one step may make of a session.
FinalStep ==
  \A s \in Sessions : sessions[s] # None =>
    \/ sessions'[s] = sessions[s]
    \/ /\ ~sessions[s].revoked
       /\ \/ sessions'[s] = [sessions[s] EXCEPT !.revoked = TRUE]
          \/ /\ sessions'[s] = [sessions[s] EXCEPT !.idle = sessions'[s].idle]
             /\ sessions'[s].idle <= sessions[s].absolute

LEMMA SessionsChange == IndInv /\ [Next]_vars => FinalStep
<1> SUFFICES ASSUME IndInv, [Next]_vars PROVE FinalStep
  OBVIOUS
<1>0. TypeOK
  BY DEF IndInv
<1>1. CASE UNCHANGED sessions
  BY <1>1 DEF FinalStep
<1>2. ASSUME NEW w \in Workers, ExpireSession(w) PROVE FinalStep
  <2>1. pc[w] \in Reading
    BY <1>2 DEF ExpireSession, Reading
  <2>2. PICK s : s = job[w].session
    OBVIOUS
  <2>3. s \in Sessions /\ sessions[s] \in Row
    BY <2>1, <2>2, Reader
  <2>4. sessions' = IF Live(s) THEN [sessions EXCEPT ![s].revoked = TRUE] ELSE sessions
    BY <1>2, <2>2 DEF ExpireSession
  <2> QED BY <1>0, <2>3, <2>4 DEF FinalStep, Live, TypeOK
<1>3. ASSUME NEW w \in Workers, TouchSession(w) PROVE FinalStep
  <2>1. pc[w] \in Reading /\ pc[w] # "read"
    BY <1>3 DEF TouchSession, Reading
  <2>2. PICK s, read, now : s = job[w].session /\ read = job[w].row /\ now = job[w].now
    OBVIOUS
  <2>3. s \in Sessions /\ sessions[s] \in Row /\ read \in Row /\ now \in Nat
    BY <1>0, <2>1, <2>2, Reader DEF TypeOK, Job
  <2>4. PICK r : r = Touched(sessions[s], read, now)
    OBVIOUS
  <2>5. sessions' = [sessions EXCEPT ![s] = r]
    BY <1>3, <2>2, <2>4 DEF TouchSession
  <2>6. sessions'[s] = r /\ \A p \in Sessions : p # s => sessions'[p] = sessions[p]
    BY <1>0, <2>3, <2>5 DEF TypeOK
  <2>7. CASE sessions[s].revoked
    <3>1. r = sessions[s]
      BY <2>4, <2>7 DEF Touched
    <3> QED BY <2>6, <3>1 DEF FinalStep
  <2>8. CASE ~sessions[s].revoked
    <3>1. PICK i : i = Least(Least(now + IdleTimeout, read.absolute), sessions[s].absolute)
      OBVIOUS
    <3>2. i <= sessions[s].absolute /\ r = [sessions[s] EXCEPT !.idle = i]
      <4>1. /\ sessions[s].absolute \in Nat /\ read.absolute \in Nat
            /\ now + IdleTimeout \in Nat
        BY <2>3, RowType, IdentityAssumption
      <4> QED BY <2>4, <2>8, <3>1, <4>1 DEF Touched, Least
    <3>3. r.idle = i
      BY <2>3, <3>2 DEF Row
    <3>4. /\ sessions'[s] = [sessions[s] EXCEPT !.idle = sessions'[s].idle]
          /\ sessions'[s].idle <= sessions[s].absolute
      BY <2>6, <3>2, <3>3
    <3> QED BY <2>6, <2>8, <3>4 DEF FinalStep
  <2> QED BY <2>7, <2>8
<1>4. ASSUME NEW w \in Workers, Commit(w) PROVE FinalStep
  <2>1. SUFFICES ASSUME NEW p \in Sessions, sessions[p] # None
                 PROVE  \/ sessions'[p] = sessions[p]
                        \/ /\ ~sessions[p].revoked
                           /\ sessions'[p] = [sessions[p] EXCEPT !.revoked = TRUE]
    BY DEF FinalStep
  <2>2. sessions'[p] = IF p \in tx[w].revoked THEN [sessions[p] EXCEPT !.revoked = TRUE]
                                              ELSE sessions[p]
    BY <1>4, <2>1, CommitTables
  <2>3. p \in tx[w].revoked => ~sessions[p].revoked
    <3>1. PendingRevocations(w)
      BY Zenon DEF IndInv, WorkerInv
    <3> QED BY <3>1 DEF PendingRevocations, Live
  <2> QED BY <2>2, <2>3
<1>5. ASSUME NEW w \in Workers, Step(w),
             ~ExpireSession(w), ~TouchSession(w), ~Commit(w)
      PROVE  UNCHANGED sessions
  BY <1>5 DEF Step, ReadSession, GetIdentity, ListActiveMemberships, VerifyCsrf, RevokeSession,
     ConsumeOAuthTransaction, UpsertProviderIdentity, CompleteLogin, RotateSession,
     IssueApplicationSession, SaveWebhookReceipt, DisableIdentity, RevokeMembership,
     StartSweep, SweepSession, tables
<1>6. ASSUME NEW w \in Workers, Request(w) \/ Rollback(w) PROVE UNCHANGED sessions
  BY <1>6 DEF Request, CallbackRequest, SessionRequest, WebhookRequest, OperatorRequest,
     Rollback, tables
<1>7. ASSUME Tick \/ UNCHANGED vars \/ \E l \in Logins : StartIdentityLogin(l)
      PROVE  UNCHANGED sessions
  BY <1>7 DEF Tick, vars, StartIdentityLogin, tables
<1> QED BY <1>1, <1>2, <1>3, <1>4, <1>5, <1>6, <1>7 DEF Next

\* A revoked session is never live again, by a late touch, an expiry, a rotation
\* or a sweep, and the idle expiry of a live one never passes the absolute one.
THEOREM RevocationStaysFinal == Spec => RevocationIsFinal
<1>1. IndInv /\ [Next]_vars =>
        [\A s \in Sessions : sessions[s] # None =>
           \/ sessions'[s] = sessions[s]
           \/ /\ ~sessions[s].revoked
              /\ \/ sessions'[s] = [sessions[s] EXCEPT !.revoked = TRUE]
                 \/ /\ sessions'[s] = [sessions[s] EXCEPT !.idle = sessions'[s].idle]
                    /\ sessions'[s].idle <= sessions[s].absolute]_vars
  BY SessionsChange DEF FinalStep
<1> QED BY <1>1, InvariantHolds, PTL DEF Spec, RevocationIsFinal

-----------------------------------------------------------------------------
(***************************************************************************)
(* The settings routes (SettingsApi).  A request reads its session, its    *)
(* role and its grants one after the other while administrators change     *)
(* them.  The argument is that what it carries was true at some time since *)
(* it arrived: the role it has now is always among the roles noted for it, *)
(* and grants are only ever revoked.                                       *)
(***************************************************************************)
\* The settings package's table of roles adds nothing to the identity package's.
LEMMA PolicyCoversSettings ==
  \A role \in Api!MembershipRoles : Api!RolePermissions(role) \subseteq Api!RolePermissionPolicy(role)
  <1> TAKE role \in Api!MembershipRoles
  <1>1. CASE role \in Api!Privileged
    <2>1. Api!RolePermissions(role) = Api!SettingsPermissions
      BY <1>1 DEF Api!RolePermissions, Api!Privileged
    <2>2. Api!RolePermissionPolicy(role) =
            Api!SettingsPermissions \cup Api!TrustReads \cup {"trust.keys.manage"}
      BY <1>1 DEF Api!RolePermissionPolicy, Api!Privileged
    <2> QED BY <2>1, <2>2
  <1>2. CASE role \notin Api!Privileged
    <2>1. role \in {"executive", "settings_editor", "receptionist_manager", "viewer"}
      BY <1>2 DEF Api!MembershipRoles
    <2>2. CASE role = "executive"
      BY <2>2 DEF Api!RolePermissions, Api!RolePermissionPolicy, Api!Privileged
    <2>3. CASE role = "settings_editor"
      BY <2>3 DEF Api!RolePermissions, Api!RolePermissionPolicy, Api!Privileged
    <2>4. CASE role = "receptionist_manager"
      BY <2>4 DEF Api!RolePermissions, Api!RolePermissionPolicy, Api!Privileged
    <2>5. CASE role = "viewer"
      BY <2>5 DEF Api!RolePermissions, Api!RolePermissionPolicy, Api!Privileged
    <2> QED BY <2>1, <2>2, <2>3, <2>4, <2>5
  <1> QED BY <1>1, <1>2

\* What AuthorityWasHeld says of one answer.
Authority(r, had, development) ==
  \E role \in had.roles \ {None} :
    /\ role \in Api!Privileged \/ development \/ r.slug \in Api!GrantCards(had.grants)
    /\ Api!RequiredPermission(r) \in
         Api!RolePermissionPolicy(role) \cup
           (IF development THEN {} ELSE Api!GrantPermissions(had.grants))

\* Whoever authorizeSettingsAction lets pass held the authority.
LEMMA AuthorityOfAuthorized ==
  ASSUME Api!ConstantsAssumed, Api!TypeOK, NEW w \in Workers, Api!Handled(w), Api!Authorized(w),
         apiPc[w] \in {"authorize", "parse", "insert"}
  PROVE  Authority(apiJob[w].request, Api!Had(apiJob[w]), env.development)
  <1> DEFINE j == apiJob[w]
             r == j.request
             had == Api!Had(j)
             role == j.role
             ctx == Api!JobContext(j)
  <1>1. role \in j.roles \ {None} /\ role \in Api!MembershipRoles
    BY DEF Api!Handled, Api!HasItsRole, Api!TypeOK, Api!Jobs
  <1>2. had.roles = j.roles /\ had.grants = j.seen
    BY DEF Api!Had
  <1>3. /\ ctx.role = role
        /\ ctx.permissions = Api!SettingsPermissions \cap
             (Api!RolePermissionPolicy(role) \cup Api!GrantPermissions(j.grants))
    BY DEF Api!JobContext, Api!Context
  <1>4. /\ Api!RequiredPermission(r) \in Api!RolePermissions(role) \cup ctx.permissions
        /\ Api!CardAllowed(ctx, r.slug)
    BY <1>3 DEF Api!Authorized, Api!AuthorizeSettingsAction
  <1>5. Api!RequiredPermission(r) \in Api!RolePermissionPolicy(role) \cup Api!GrantPermissions(j.grants)
    BY <1>1, <1>3, <1>4, PolicyCoversSettings
  <1>6. role \in Api!Privileged \/ r.slug \in ctx.cards
    BY <1>1, <1>3, <1>4 DEF Api!CardAllowed, Api!MembershipRoles, Api!Privileged
  <1>7. CASE env.development
    <2>1. Api!GrantPermissions(j.grants) = {}
      BY <1>7 DEF Api!Handled, Api!TakesItsPath, Api!GrantPermissions
    <2> QED BY <2>1, <1>1, <1>2, <1>5, <1>7 DEF Authority
  <1>8. CASE ~env.development
    <2>1. j.grants \subseteq j.seen
      BY <1>8 DEF Api!Handled, Api!PassedTheContext
    <2>2. Api!GrantPermissions(j.grants) \subseteq Api!GrantPermissions(j.seen)
      BY <2>1 DEF Api!GrantPermissions
    <2>3. Api!GrantCards(j.grants) \subseteq Api!GrantCards(j.seen)
      BY <2>1 DEF Api!GrantCards
    <2>4. role \in Api!Privileged \/ r.slug \in Api!GrantCards(j.grants)
      BY <1>8 DEF Api!Handled, Api!PassedTheContext
    <2> QED BY <2>2, <2>3, <2>4, <1>1, <1>2, <1>5, <1>8 DEF Authority
  <1> QED BY <1>7, <1>8

\* The invariant in the lemma's words.
LEMMA HeldIsAuthority ==
  Api!AuthorityWasHeld <=> \A a \in Api!Served : Authority(a.request, a.had, env.development)
  BY DEF Api!AuthorityWasHeld, Authority

\* A step that touches neither a worker, nor what it has read, keeps its facts.
LEMMA HandledFrame ==
  ASSUME NEW w \in Workers, Api!Handled(w), UNCHANGED <<env, roles, granted>>,
         apiJob'[w] = apiJob[w], apiPc'[w] = apiPc[w]
  PROVE  Api!Handled(w)'
  <1>1. Api!SeesTheTables(w)' /\ Api!TakesItsPath(w)' /\ Api!HasItsRole(w)'
        /\ Api!PassedTheSchema(w)'
    BY DEF Api!Handled, Api!SeesTheTables, Api!TakesItsPath, Api!HasItsRole, Api!PassedTheSchema,
       Api!GrantsOf
  <1>2. Api!PassedTheContext(w)'
    BY DEF Api!Handled, Api!PassedTheContext
  <1>3. Api!PassedTheAuthorization(w)'
    BY DEF Api!Handled, Api!PassedTheAuthorization, Api!Authorized, Api!JobContext
  <1> QED BY <1>1, <1>2, <1>3 DEF Api!Handled

\* A reply ends the work of one worker and leaves the others alone.
LEMMA AnsweredFrame ==
  ASSUME Api!IndInv, NEW w \in Workers, apiPc[w] # "idle", NEW status,
         Api!Reply(w, status), UNCHANGED <<env, Api!tables, Api!counters>>
  PROVE  Api!TypeOK' /\ \A u \in Workers : apiPc'[u] # "idle" => Api!Handled(u)'
  <1>1. Api!TypeOK'
    BY DEF Api!IndInv, Api!TypeOK, Api!Reply, Api!GoTo, Api!tables, Api!counters, Api!NoJob,
       Api!Jobs
  <1>2. \A u \in Workers : apiPc'[u] # "idle" => Api!Handled(u)'
    <2> SUFFICES ASSUME NEW u \in Workers, apiPc'[u] # "idle" PROVE Api!Handled(u)'
      OBVIOUS
    <2>1. u # w /\ apiPc'[u] = apiPc[u] /\ apiJob'[u] = apiJob[u]
      BY DEF Api!IndInv, Api!TypeOK, Api!Reply, Api!GoTo
    <2>2. Api!Handled(u)
      BY <2>1 DEF Api!IndInv
    <2> QED BY <2>1, <2>2, HandledFrame DEF Api!tables
  <1> QED BY <1>1, <1>2

\* What is answered after the authorization keeps the answers sound.
LEMMA ServedAnswer ==
  ASSUME Api!ConstantsAssumed, Api!IndInv, NEW w \in Workers, NEW status, Api!Reply(w, status),
         env' = env,
         Api!Authorized(w), apiPc[w] \in {"authorize", "insert"}
  PROVE  Api!AuthorityWasHeld' /\ Api!ForeignRequestsAreRefused'
  <1> DEFINE a == [id |-> apiJob[w].id, request |-> apiJob[w].request, status |-> status,
                   had |-> Api!Had(apiJob[w])]
  <1>1. answers' = answers \cup {a} /\ a.request = apiJob[w].request /\ a.had = Api!Had(apiJob[w])
    BY DEF Api!Reply
  <1>2. Api!Handled(w) /\ Api!TypeOK
    BY DEF Api!IndInv
  <1>3. Authority(a.request, a.had, env.development)
    BY <1>1, <1>2, AuthorityOfAuthorized
  <1>4. ~env.development => /\ a.request.user \notin Outsiders \cup {None}
                            /\ a.request.method = "POST" => a.request.form = "own"
    BY <1>1, <1>2 DEF Api!Handled, Api!TakesItsPath, Api!PassedTheContext, Api!ConstantsAssumed
  <1>5. Api!Served' \subseteq Api!Served \cup {a}
    BY <1>1 DEF Api!Served
  <1>6. Api!AuthorityWasHeld /\ Api!ForeignRequestsAreRefused
    BY DEF Api!IndInv, Api!ApiIsSound
  <1> HIDE DEF a
  <1>7. \A b \in Api!Served' : Authority(b.request, b.had, env.development)
    BY <1>3, <1>5, <1>6, HeldIsAuthority
  <1>8. Api!AuthorityWasHeld'
    BY <1>7 DEF Api!AuthorityWasHeld, Authority
  <1>9. Api!ForeignRequestsAreRefused'
    BY <1>4, <1>5, <1>6 DEF Api!ForeignRequestsAreRefused
  <1> QED BY <1>8, <1>9

\* A step of w that answers with a refusal.
LEMMA RefusalInv ==
  ASSUME Api!IndInv, NEW w \in Workers, apiPc[w] # "idle", NEW status, status \notin {200, 202},
         Api!Reply(w, status), UNCHANGED <<env, Api!tables, audit, Api!counters>>
  PROVE  Api!IndInv'
  <1> DEFINE a == [id |-> apiJob[w].id, request |-> apiJob[w].request, status |-> status,
                   had |-> Api!Had(apiJob[w])]
  <1>1. Api!TypeOK' /\ \A u \in Workers : apiPc'[u] # "idle" => Api!Handled(u)'
    BY AnsweredFrame
  <1>3. answers' = answers \cup {a} /\ a.status = status
    BY DEF Api!Reply
  <1>4. Api!Served' = Api!Served
    BY <1>3 DEF Api!Served
  <1>5. Api!ApiIsSound
    BY DEF Api!IndInv
  <1>6. Api!AuthorityWasHeld' /\ Api!ForeignRequestsAreRefused'
    BY <1>4, <1>5, HeldIsAuthority DEF Api!ApiIsSound, Api!AuthorityWasHeld,
       Api!ForeignRequestsAreRefused
  <1>7. Api!AcceptedIsAudited'
    BY <1>3, <1>5 DEF Api!ApiIsSound, Api!AcceptedIsAudited
  <1>8. Api!AuditedWasAccepted'
    BY <1>3, <1>5 DEF Api!ApiIsSound, Api!AuditedWasAccepted
  <1> QED BY <1>1, <1>6, <1>7, <1>8 DEF Api!IndInv, Api!ApiIsSound

\* A step of w that answers nothing.
LEMMA StepInv ==
  ASSUME Api!IndInv, NEW w \in Workers, NEW j \in Api!Jobs, 
         NEW step \in {"arrived", "session", "identity", "membership", "grants",
                        "csrf", "authorize", "parse", "insert"},
         apiJob' = [apiJob EXCEPT ![w] = j], apiPc' = [apiPc EXCEPT ![w] = step],
         UNCHANGED <<env, Api!tables, audit, answers, apiClock, changes>>,
         requests' \in Nat,
         Api!Handled(w)'
  PROVE  Api!IndInv'
  <1>1. Api!TypeOK'
    BY DEF Api!IndInv, Api!TypeOK, Api!tables
  <1>2. \A u \in Workers : apiPc'[u] # "idle" => Api!Handled(u)'
    <2> SUFFICES ASSUME NEW u \in Workers, apiPc'[u] # "idle", u # w PROVE Api!Handled(u)'
      OBVIOUS
    <2>1. apiPc'[u] = apiPc[u] /\ apiJob'[u] = apiJob[u]
      BY DEF Api!IndInv, Api!TypeOK
    <2>2. Api!Handled(u)
      BY <2>1 DEF Api!IndInv
    <2> QED BY <2>1, <2>2, HandledFrame DEF Api!tables
  <1>3. Api!ApiIsSound'
    BY DEF Api!IndInv, Api!ApiIsSound, Api!AuthorityWasHeld, Api!AcceptedIsAudited,
       Api!AuditedWasAccepted, Api!ForeignRequestsAreRefused, Api!Served
  <1> QED BY <1>1, <1>2, <1>3 DEF Api!IndInv

\* A step of w that answers nothing and leaves its job alone.
LEMMA ProceedInv ==
  ASSUME Api!IndInv, NEW w \in Workers, apiPc[w] # "idle",
         NEW step \in {"arrived", "session", "identity", "membership", "grants",
                        "csrf", "authorize", "parse", "insert"},
         Api!Proceed(w, step), UNCHANGED <<env, Api!tables, audit, Api!counters>>,
         Api!TakesItsPath(w)', Api!HasItsRole(w)', Api!PassedTheContext(w)',
         Api!PassedTheAuthorization(w)', Api!PassedTheSchema(w)'
  PROVE  Api!IndInv'
  <1>1. apiJob' = [apiJob EXCEPT ![w] = apiJob[w]] /\ apiJob[w] \in Api!Jobs
        /\ apiJob'[w] = apiJob[w]
    BY DEF Api!IndInv, Api!TypeOK, Api!Proceed
  <1>2. Api!Handled(w)'
    <2>1. Api!Handled(w)
      BY DEF Api!IndInv
    <2>2. Api!SeesTheTables(w)'
      BY <1>1, <2>1 DEF Api!Handled, Api!SeesTheTables, Api!GrantsOf, Api!tables
    <2> QED BY <1>1, <2>1, <2>2 DEF Api!Handled
  <1>3. requests' \in Nat
    BY DEF Api!IndInv, Api!TypeOK, Api!counters
  <1> QED BY <1>1, <1>2, <1>3, StepInv DEF Api!Proceed, Api!GoTo, Api!counters

\* One lemma per action: it preserves the invariant.
LEMMA ReceiveRequestInv ==
  ASSUME Api!ConstantsAssumed, Api!IndInv, NEW w \in Workers, Api!ReceiveRequest(w)
  PROVE  Api!IndInv'
  <1>1. PICK r \in Requests :
          apiJob' = [apiJob EXCEPT ![w] =
            [Api!NoJob EXCEPT !.request = r, !.id = requests + 1,
                          !.roles = IF r.user = None THEN {} ELSE {roles[r.user]},
                          !.seen = IF r.user = None THEN {} ELSE Api!GrantsOf(r.user)]]
    BY DEF Api!ReceiveRequest
  <1> DEFINE j == [Api!NoJob EXCEPT !.request = r, !.id = requests + 1,
                          !.roles = IF r.user = None THEN {} ELSE {roles[r.user]},
                          !.seen = IF r.user = None THEN {} ELSE Api!GrantsOf(r.user)]
  <1>2. j \in Api!Jobs /\ j.request = r /\ j.grants = {} /\ (r.user # None
        => j.roles = {roles[r.user]} /\ j.seen = Api!GrantsOf(r.user))
    <2>1. r.user # None => roles[r.user] \in Api!MembershipRoles \cup {None}
      BY DEF Api!ConstantsAssumed, Api!IndInv, Api!TypeOK
    <2>2. Api!GrantsOf(r.user) \subseteq Grants
      BY DEF Api!GrantsOf, Api!IndInv, Api!TypeOK
    <2>3. requests + 1 \in Nat
      BY DEF Api!IndInv, Api!TypeOK
    <2> QED BY <2>1, <2>2, <2>3 DEF Api!NoJob, Api!Jobs
  <1>3. apiJob' = [apiJob EXCEPT ![w] = j] /\ apiJob'[w] = j
        /\ apiPc' = [apiPc EXCEPT ![w] = "arrived"] /\ apiPc'[w] = "arrived"
    BY <1>1 DEF Api!ReceiveRequest, Api!GoTo, Api!IndInv, Api!TypeOK
  <1>4. UNCHANGED <<env, Api!tables, audit, answers, apiClock, changes>> /\ requests' \in Nat
    BY DEF Api!ReceiveRequest, Api!IndInv, Api!TypeOK
  <1> HIDE DEF j
  <1>5. Api!Handled(w)'
    <2>1. Api!SeesTheTables(w)'
      BY <1>2, <1>3, <1>4 DEF Api!SeesTheTables, Api!GrantsOf, Api!tables
    <2>2. Api!TakesItsPath(w)' /\ Api!HasItsRole(w)' /\ Api!PassedTheContext(w)'
          /\ Api!PassedTheAuthorization(w)' /\ Api!PassedTheSchema(w)'
      BY <1>2, <1>3, <1>4 DEF Api!TakesItsPath, Api!HasItsRole, Api!PassedTheContext,
         Api!PassedTheAuthorization, Api!PassedTheSchema
    <2> QED BY <1>2, <1>3, <2>1, <2>2 DEF Api!Handled
  <1> QED BY <1>2, <1>3, <1>4, <1>5, StepInv

LEMMA CheckRequestInv ==
  ASSUME Api!ConstantsAssumed, Api!IndInv, NEW w \in Workers, Api!CheckRequest(w)
  PROVE  Api!IndInv'
  <1>1. apiPc[w] = "arrived" /\ UNCHANGED <<env, Api!tables, audit, Api!counters>> /\ Api!Handled(w)
    BY DEF Api!CheckRequest, Api!IndInv
  <1>2. CASE \E status \in {400, 401, 403, 404, 503} : Api!Reply(w, status)
    BY <1>1, <1>2, RefusalInv
  <1>3. CASE Api!Proceed(w, "session") /\ apiJob[w].request.user # None /\ ~env.development
    <2>1. apiJob' = apiJob /\ apiPc'[w] = "session" /\ env' = env
      BY <1>1, <1>3 DEF Api!Proceed, Api!GoTo, Api!IndInv, Api!TypeOK
    <2>2. Api!TakesItsPath(w)' /\ Api!HasItsRole(w)' /\ Api!PassedTheContext(w)'
          /\ Api!PassedTheAuthorization(w)' /\ Api!PassedTheSchema(w)'
      BY <1>3, <2>1 DEF Api!TakesItsPath, Api!HasItsRole, Api!PassedTheContext,
         Api!PassedTheAuthorization, Api!PassedTheSchema
    <2> QED BY <1>1, <1>3, <2>2, ProceedInv
  <1>4. CASE /\ env.development /\ env.role \in Api!MembershipRoles
             /\ apiJob' = [apiJob EXCEPT ![w].role = env.role, ![w].roles = {env.role}]
             /\ Api!GoTo(w, "authorize") /\ UNCHANGED answers
    <2> DEFINE j == [apiJob[w] EXCEPT !.role = env.role, !.roles = {env.role}]
    <2>0. apiJob[w] \in Api!Jobs
      BY DEF Api!IndInv, Api!TypeOK
    <2>1. j \in Api!Jobs /\ j.request = apiJob[w].request /\ j.grants = apiJob[w].grants
          /\ j.role = env.role /\ j.roles = {env.role}
      BY <1>4, <2>0 DEF Api!Jobs
    <2>2. apiJob' = [apiJob EXCEPT ![w] = j] /\ apiJob'[w] = j
          /\ apiPc' = [apiPc EXCEPT ![w] = "authorize"]
          /\ apiPc'[w] = "authorize"
      BY <1>4 DEF Api!GoTo, Api!IndInv, Api!TypeOK
    <2>3. env' = env /\ env.role # None
      BY <1>1, <1>4 DEF Api!ConstantsAssumed
    <2> HIDE DEF j
    <2>4. Api!Handled(w)'
      <3>1. Api!SeesTheTables(w)' /\ Api!TakesItsPath(w)'
        BY <1>1, <1>4, <2>1, <2>2, <2>3 DEF Api!SeesTheTables, Api!TakesItsPath, Api!Handled
      <3>2. Api!HasItsRole(w)' /\ Api!PassedTheContext(w)' /\ Api!PassedTheAuthorization(w)'
            /\ Api!PassedTheSchema(w)'
        BY <1>4, <2>1, <2>2, <2>3 DEF Api!HasItsRole, Api!PassedTheContext,
           Api!PassedTheAuthorization, Api!PassedTheSchema
      <3> QED BY <1>1, <2>1, <2>2, <3>1, <3>2 DEF Api!Handled
    <2>5. requests' \in Nat /\ UNCHANGED <<env, Api!tables, audit, answers, apiClock, changes>>
      BY <1>1, <1>4 DEF Api!counters, Api!IndInv, Api!TypeOK
    <2> QED BY <2>1, <2>2, <2>4, <2>5, StepInv
  <1>5. CASE Api!SlugStatus(apiJob[w].request) # 200
    BY <1>2, <1>5 DEF Api!CheckRequest, Api!SlugStatus
  <1>6. CASE Api!SlugStatus(apiJob[w].request) = 200
    <2>1. Api!ResolveIdentity(w)
      BY <1>6 DEF Api!CheckRequest
    <2>2. env.development \in BOOLEAN /\ env.database \in BOOLEAN
      BY DEF Api!ConstantsAssumed, Api!IndInv, Api!TypeOK
    <2>3. CASE env.development
      <3>1. Api!DevelopmentIdentity(w)
        BY <2>1, <2>3 DEF Api!ResolveIdentity
      <3> QED BY <3>1, <2>3, <1>2, <1>4 DEF Api!DevelopmentIdentity
    <2>4. CASE ~env.development
      BY <2>1, <2>4, <1>2, <1>3 DEF Api!ResolveIdentity
    <2> QED BY <2>2, <2>3, <2>4
  <1> QED BY <1>5, <1>6

LEMMA LookUpInv ==
  ASSUME Api!ConstantsAssumed, Api!IndInv, NEW w \in Workers,
         Api!GetSession(w) \/ Api!GetIdentity(w) \/ Api!VerifyCsrf(w)
  PROVE  Api!IndInv'
  <1>1. UNCHANGED <<env, Api!tables, audit, Api!counters>>
        /\ apiPc[w] \in {"session", "identity", "csrf"} /\ Api!Handled(w)
    BY DEF Api!GetSession, Api!GetIdentity, Api!VerifyCsrf, Api!IndInv
  <1>2. CASE \E status \in {401, 403} : Api!Reply(w, status)
    BY <1>1, <1>2, RefusalInv
  <1>3. ASSUME NEW step \in {"identity", "membership", "authorize"}, Api!Proceed(w, step),
               step # "authorize" => apiPc[w] \in {"session", "identity"},
               step = "authorize" => apiPc[w] = "csrf" /\ apiJob[w].request.form # "wrong token"
        PROVE  Api!IndInv'
    <2>1. apiJob' = apiJob /\ apiPc'[w] = step /\ env' = env
      BY <1>1, <1>3 DEF Api!Proceed, Api!GoTo, Api!IndInv, Api!TypeOK
    <2>2. ~env.development
      BY <1>1 DEF Api!Handled, Api!TakesItsPath
    <2>3. Api!TakesItsPath(w)' /\ Api!HasItsRole(w)' /\ Api!PassedTheSchema(w)'
          /\ Api!PassedTheAuthorization(w)'
      BY <1>1, <1>3, <2>1, <2>2 DEF Api!Handled, Api!TakesItsPath, Api!HasItsRole,
         Api!PassedTheSchema, Api!PassedTheAuthorization
    <2>4. Api!PassedTheContext(w)'
      BY <1>1, <1>3, <2>1 DEF Api!Handled, Api!PassedTheContext
    <2> QED BY <1>1, <1>3, <2>3, <2>4, ProceedInv
  <1>4. CASE Api!GetSession(w)
    BY <1>2, <1>3, <1>4 DEF Api!GetSession
  <1>5. CASE Api!GetIdentity(w)
    BY <1>2, <1>3, <1>5 DEF Api!GetIdentity
  <1>6. CASE Api!VerifyCsrf(w)
    BY <1>2, <1>3, <1>6 DEF Api!VerifyCsrf
  <1> QED BY <1>4, <1>5, <1>6

LEMMA ListMembershipsInv ==
  ASSUME Api!ConstantsAssumed, Api!IndInv, NEW w \in Workers, Api!ListMemberships(w)
  PROVE  Api!IndInv'
  <1> DEFINE role == roles[apiJob[w].request.user]
             j == [apiJob[w] EXCEPT !.role = role]
  <1>1. UNCHANGED <<env, Api!tables, audit, Api!counters>> /\ apiPc[w] = "membership"
        /\ Api!Handled(w)
    BY DEF Api!ListMemberships, Api!IndInv
  <1>2. CASE role = None
    BY <1>1, <1>2, RefusalInv DEF Api!ListMemberships
  <1>3. CASE role # None
    <2>1. apiJob[w] \in Api!Jobs /\ apiJob[w].request \in Requests /\ ~env.development
          /\ apiJob[w].request.user # None
      BY <1>1 DEF Api!IndInv, Api!TypeOK, Api!Handled, Api!TakesItsPath
    <2>2. role \in Api!MembershipRoles /\ role \in apiJob[w].roles
      BY <1>1, <1>3, <2>1 DEF Api!ConstantsAssumed, Api!IndInv, Api!TypeOK, Api!Handled,
         Api!SeesTheTables
    <2>3. j \in Api!Jobs /\ j.request = apiJob[w].request /\ j.roles = apiJob[w].roles
          /\ j.seen = apiJob[w].seen /\ j.role = role
      BY <2>1, <2>2 DEF Api!Jobs
    <2>4. apiJob' = [apiJob EXCEPT ![w] = j] /\ apiPc' = [apiPc EXCEPT ![w] = "grants"]
          /\ answers' = answers
      BY <1>3 DEF Api!ListMemberships, Api!GoTo
    <2>5. apiJob'[w] = j /\ apiPc'[w] = "grants"
      BY <2>4 DEF Api!IndInv, Api!TypeOK
    <2> HIDE DEF j
    <2>6. Api!Handled(w)'
      <3>1. Api!SeesTheTables(w)'
        BY <1>1, <2>3, <2>5 DEF Api!Handled, Api!SeesTheTables, Api!GrantsOf, Api!tables
      <3>2. Api!TakesItsPath(w)' /\ Api!PassedTheSchema(w)' /\ Api!PassedTheAuthorization(w)'
            /\ Api!PassedTheContext(w)'
        BY <1>1, <2>1, <2>3, <2>5 DEF Api!TakesItsPath, Api!PassedTheSchema,
           Api!PassedTheAuthorization, Api!PassedTheContext
      <3>3. Api!HasItsRole(w)'
        BY <1>3, <2>2, <2>3, <2>5 DEF Api!HasItsRole
      <3> QED BY <2>1, <2>3, <2>5, <3>1, <3>2, <3>3 DEF Api!Handled
    <2>7. requests' \in Nat /\ UNCHANGED <<env, Api!tables, audit, answers, apiClock, changes>>
      BY <1>1, <2>4 DEF Api!counters, Api!IndInv, Api!TypeOK
    <2> QED BY <2>3, <2>4, <2>6, <2>7, StepInv
  <1> QED BY <1>2, <1>3

LEMMA ListGrantsInv ==
  ASSUME Api!ConstantsAssumed, Api!IndInv, NEW w \in Workers, Api!ListGrants(w)
  PROVE  Api!IndInv'
  <1> DEFINE r == apiJob[w].request
             gs == Api!GrantsOf(r.user)
             j == [apiJob[w] EXCEPT !.grants = gs]
             refused == \/ r.user \in Outsiders
                        \/ apiJob[w].role \notin Api!Privileged /\ r.slug \notin Api!GrantCards(gs)
                        \/ r.method = "POST" /\ r.form = "foreign origin"
             step == IF r.method = "POST" THEN "csrf" ELSE "authorize"
  <1>1. UNCHANGED <<env, Api!tables, audit, Api!counters>> /\ apiPc[w] = "grants" /\ Api!Handled(w)
    BY DEF Api!ListGrants, Api!IndInv
  <1>2. CASE refused
    <2>1. Api!Reply(w, 403)
      BY <1>2 DEF Api!ListGrants
    <2> QED BY <1>1, <2>1, RefusalInv
  <1>3. CASE ~refused
    <2>1. apiJob[w] \in Api!Jobs /\ apiJob[w].request \in Requests /\ ~env.development
          /\ r.user # None
      BY <1>1 DEF Api!IndInv, Api!TypeOK, Api!Handled, Api!TakesItsPath
    <2>2. gs \subseteq Grants /\ gs \subseteq apiJob[w].seen
      BY <1>1, <2>1 DEF Api!IndInv, Api!TypeOK, Api!Handled, Api!SeesTheTables, Api!GrantsOf
    <2>3. j \in Api!Jobs /\ j.request = r /\ j.roles = apiJob[w].roles
          /\ j.seen = apiJob[w].seen /\ j.role = apiJob[w].role /\ j.grants = gs
      BY <2>1, <2>2 DEF Api!Jobs
    <2>4. apiJob' = [apiJob EXCEPT ![w] = j] /\ apiPc' = [apiPc EXCEPT ![w] = step]
          /\ answers' = answers
      BY <1>3 DEF Api!ListGrants, Api!GoTo
    <2>5. apiJob'[w] = j /\ apiPc'[w] = step /\ env' = env
      BY <1>1, <2>4 DEF Api!IndInv, Api!TypeOK
    <2> HIDE DEF j
    <2>6. Api!Handled(w)'
      <3>1. Api!SeesTheTables(w)'
        BY <1>1, <2>3, <2>5 DEF Api!Handled, Api!SeesTheTables, Api!GrantsOf, Api!tables
      <3>2. Api!TakesItsPath(w)' /\ Api!PassedTheSchema(w)' /\ Api!PassedTheAuthorization(w)'
            /\ Api!HasItsRole(w)'
        BY <1>1, <2>1, <2>3, <2>5 DEF Api!Handled, Api!TakesItsPath, Api!PassedTheSchema,
           Api!PassedTheAuthorization, Api!HasItsRole
      <3>3. Api!PassedTheContext(w)'
        BY <1>3, <2>2, <2>3, <2>5 DEF Api!PassedTheContext
      <3> QED BY <2>1, <2>3, <2>5, <3>1, <3>2, <3>3 DEF Api!Handled
    <2>7. requests' \in Nat /\ UNCHANGED <<env, Api!tables, audit, answers, apiClock, changes>>
      BY <1>1, <2>4 DEF Api!counters, Api!IndInv, Api!TypeOK
    <2>8. step \in {"csrf", "authorize"}
      OBVIOUS
    <2> HIDE DEF step
    <2> QED BY <2>3, <2>4, <2>6, <2>7, <2>8, StepInv
  <1> QED BY <1>2, <1>3

LEMMA AuthorizeWriteInv ==
  ASSUME Api!ConstantsAssumed, Api!IndInv, NEW w \in Workers, Api!AuthorizeWrite(w)
  PROVE  Api!IndInv'
  <1>1. UNCHANGED <<env, Api!tables, audit, Api!counters>> /\ apiPc[w] = "authorize"
        /\ apiJob[w].request.method = "POST" /\ Api!Handled(w)
    BY DEF Api!AuthorizeWrite, Api!IndInv
  <1>2. CASE Api!Reply(w, 403) \/ Api!Reply(w, 503)
    BY <1>1, <1>2, RefusalInv
  <1>3. CASE Api!Proceed(w, "parse") /\ Api!Authorized(w) /\ env.database
    <2>1. apiJob' = apiJob /\ apiPc'[w] = "parse" /\ env' = env
      BY <1>1, <1>3 DEF Api!Proceed, Api!GoTo, Api!IndInv, Api!TypeOK
    <2>2. Api!TakesItsPath(w)' /\ Api!HasItsRole(w)' /\ Api!PassedTheSchema(w)'
          /\ Api!PassedTheContext(w)'
      BY <1>1, <2>1 DEF Api!Handled, Api!TakesItsPath, Api!HasItsRole, Api!PassedTheSchema,
         Api!PassedTheContext
    <2>3. Api!PassedTheAuthorization(w)'
      BY <1>1, <1>3, <2>1 DEF Api!PassedTheAuthorization, Api!Authorized, Api!JobContext
    <2> QED BY <1>1, <1>3, <2>2, <2>3, ProceedInv
  <1>4. env.database \in BOOLEAN
    BY DEF Api!ConstantsAssumed, Api!IndInv, Api!TypeOK
  <1>5. Api!Authorized(w) \in BOOLEAN
    BY DEF Api!Authorized, Api!AuthorizeSettingsAction
  <1> QED BY <1>2, <1>3, <1>4, <1>5 DEF Api!AuthorizeWrite

LEMMA ParseBodyInv ==
  ASSUME Api!ConstantsAssumed, Api!IndInv, NEW w \in Workers, Api!ParseBody(w)
  PROVE  Api!IndInv'
  <1> DEFINE r == apiJob[w].request
             j == [apiJob[w] EXCEPT !.at = apiClock]
  <1>1. UNCHANGED <<env, Api!tables, audit, Api!counters>> /\ apiPc[w] = "parse" /\ Api!Handled(w)
    BY DEF Api!ParseBody, Api!IndInv
  <1>2. CASE ~(Api!SchemaAccepts(r) /\ Api!ThemeIsValid(r))
    BY <1>1, <1>2, RefusalInv DEF Api!ParseBody
  <1>3. CASE Api!SchemaAccepts(r) /\ Api!ThemeIsValid(r)
    <2>1. apiJob[w] \in Api!Jobs
      BY <1>1 DEF Api!IndInv, Api!TypeOK, Api!Handled, Api!TakesItsPath
    <2>3. j \in Api!Jobs /\ j.request = r /\ j.roles = apiJob[w].roles
          /\ j.seen = apiJob[w].seen /\ j.role = apiJob[w].role /\ j.grants = apiJob[w].grants
      BY <2>1 DEF Api!Jobs, Api!IndInv, Api!TypeOK
    <2>4. apiJob' = [apiJob EXCEPT ![w] = j] /\ apiPc' = [apiPc EXCEPT ![w] = "insert"]
          /\ answers' = answers
      BY <1>3 DEF Api!ParseBody, Api!GoTo
    <2>5. apiJob'[w] = j /\ apiPc'[w] = "insert" /\ env' = env
      BY <1>1, <2>4 DEF Api!IndInv, Api!TypeOK
    <2> HIDE DEF j
    <2>6. Api!Handled(w)'
      <3>1. Api!SeesTheTables(w)'
        BY <1>1, <2>3, <2>5 DEF Api!Handled, Api!SeesTheTables, Api!GrantsOf, Api!tables
      <3>2. Api!TakesItsPath(w)' /\ Api!PassedTheSchema(w)' /\ Api!HasItsRole(w)'
        BY <1>1, <1>3, <2>1, <2>3, <2>5 DEF Api!Handled, Api!TakesItsPath, Api!PassedTheSchema,
           Api!HasItsRole
      <3>3. Api!PassedTheContext(w)'
        BY <1>1, <2>3, <2>5 DEF Api!Handled, Api!PassedTheContext
      <3>4. Api!PassedTheAuthorization(w)'
        BY <1>1, <2>3, <2>5 DEF Api!Handled, Api!PassedTheAuthorization, Api!Authorized,
           Api!JobContext
      <3> QED BY <1>1, <2>3, <2>5, <3>1, <3>2, <3>3, <3>4 DEF Api!Handled
    <2>7. requests' \in Nat /\ UNCHANGED <<env, Api!tables, audit, answers, apiClock, changes>>
      BY <1>1, <2>4 DEF Api!counters, Api!IndInv, Api!TypeOK
    <2> QED BY <2>3, <2>4, <2>6, <2>7, StepInv
  <1> QED BY <1>2, <1>3

LEMMA AuthorizeReadInv ==
  ASSUME Api!ConstantsAssumed, Api!IndInv, NEW w \in Workers, Api!AuthorizeRead(w)
  PROVE  Api!IndInv'
  <1>1. UNCHANGED <<env, Api!tables, audit, Api!counters>> /\ apiPc[w] = "authorize"
        /\ apiJob[w].request.method = "GET" /\ Api!Handled(w)
    BY DEF Api!AuthorizeRead, Api!IndInv
  <1>2. CASE ~Api!Authorized(w)
    BY <1>1, <1>2, RefusalInv DEF Api!AuthorizeRead
  <1>3. CASE Api!Authorized(w)
    <2>1. Api!Reply(w, 200)
      BY <1>3 DEF Api!AuthorizeRead
    <2>2. Api!TypeOK' /\ \A u \in Workers : apiPc'[u] # "idle" => Api!Handled(u)'
      BY <1>1, <2>1, AnsweredFrame
    <2>3. Api!ApiIsSound'
      <3>1. Api!AuthorityWasHeld' /\ Api!ForeignRequestsAreRefused'
        BY <1>1, <1>3, <2>1, ServedAnswer
      <3>2. Api!AcceptedIsAudited'
        BY <1>1, <2>1 DEF Api!IndInv, Api!ApiIsSound, Api!AcceptedIsAudited, Api!Reply
      <3>3. Api!AuditedWasAccepted'
        BY <1>1, <2>1 DEF Api!IndInv, Api!ApiIsSound, Api!AuditedWasAccepted, Api!Reply
      <3> QED BY <3>1, <3>2, <3>3 DEF Api!ApiIsSound
    <2> QED BY <2>2, <2>3 DEF Api!IndInv
  <1> QED BY <1>2, <1>3

LEMMA WriteAuditEventInv ==
  ASSUME Api!ConstantsAssumed, Api!IndInv, NEW w \in Workers, Api!WriteAuditEvent(w)
  PROVE  Api!IndInv'
  <1> DEFINE e == Api!AuditEvent(apiJob[w])
             r == apiJob[w].request
  <1>1. /\ UNCHANGED <<env, Api!tables, Api!counters>> /\ apiPc[w] = "insert" /\ Api!Handled(w)
        /\ Api!Authorized(w) /\ env.database /\ Api!SchemaAccepts(r) /\ Api!ThemeIsValid(r)
    BY DEF Api!WriteAuditEvent, Api!IndInv, Api!Handled, Api!PassedTheAuthorization,
       Api!PassedTheSchema
  <1>2. PICK status \in {202, 503} : /\ Api!Reply(w, status)
                                     /\ audit' \in {audit, Api!Inserted(e)}
                                     /\ status = 202 => audit' = Api!Inserted(e)
    BY DEF Api!WriteAuditEvent
  <1>3. Api!TypeOK' /\ \A u \in Workers : apiPc'[u] # "idle" => Api!Handled(u)'
    BY <1>1, <1>2, AnsweredFrame
  <1> DEFINE a == [id |-> apiJob[w].id, request |-> r, status |-> status,
      had |-> Api!Had(apiJob[w])]
  <1>4. answers' = answers \cup {a} /\ a.id = apiJob[w].id /\ a.request = r /\ a.status = status
    BY <1>2 DEF Api!Reply
  <1>5. /\ e.card = r.slug /\ e.kind = r.kind /\ e.value = r.body /\ e.request = apiJob[w].id
        /\ e.actor = Api!Actor(apiJob[w])
    BY DEF Api!AuditEvent
  <1>6. \E f \in Api!Inserted(e) : f.card = e.card /\ f.kind = e.kind /\ f.value = e.value
        /\ f.actor = e.actor
    <2>1. CASE \E f \in audit : [f EXCEPT !.request = e.request] = e
      <3>1. PICK f \in audit : [f EXCEPT !.request = e.request] = e
        BY <2>1
      <3>2. f.card = e.card /\ f.kind = e.kind /\ f.value = e.value /\ f.actor = e.actor
        <4> DEFINE g == [f EXCEPT !.request = e.request]
        <4>1. g.card = f.card /\ g.kind = f.kind /\ g.value = f.value /\ g.actor = f.actor
          <5>1. "card" \in DOMAIN f /\ "kind" \in DOMAIN f /\ "value" \in DOMAIN f
                /\ "actor" \in DOMAIN f
            <6>1. DOMAIN g = DOMAIN f
              OBVIOUS
            <6>2. DOMAIN e = {"card", "kind", "actor", "value", "old", "at", "request"}
              BY DEF Api!AuditEvent
            <6> QED BY <3>1, <6>1, <6>2
          <5> QED BY <5>1
        <4> QED BY <3>1, <4>1
      <3>3. f \in Api!Inserted(e)
        BY <3>1, <2>1 DEF Api!Inserted
      <3> QED BY <3>2, <3>3
    <2>2. CASE ~\E f \in audit : [f EXCEPT !.request = e.request] = e
      <3>1. e \in Api!Inserted(e)
        BY <2>2 DEF Api!Inserted
      <3> QED BY <3>1
    <2> QED BY <2>1, <2>2
  <1>7. \A f \in audit' : f \in audit \/ f = e
    BY <1>2 DEF Api!Inserted
  <1>8. audit \subseteq audit'
    BY <1>2 DEF Api!Inserted
  <1> HIDE DEF e
  <1>9. Api!AcceptedIsAudited'
    <2> SUFFICES ASSUME NEW b \in answers', b.status = 202
                 PROVE  \E f \in audit' : /\ f.card = b.request.slug /\ f.kind = b.request.kind
                                          /\ f.value = b.request.body
                                          /\ env.development \/ f.actor = b.request.user
      BY <1>1 DEF Api!AcceptedIsAudited
    <2>1. CASE b \in answers
      BY <2>1, <1>8 DEF Api!IndInv, Api!ApiIsSound, Api!AcceptedIsAudited
    <2>2. CASE b = a
      <3>1. audit' = Api!Inserted(e)
        BY <1>2, <2>2, <1>4
      <3>2. env.development \/ e.actor = r.user
        BY <1>5 DEF Api!Actor
      <3> QED BY <3>1, <3>2, <2>2, <1>4, <1>5, <1>6
    <2> QED BY <2>1, <2>2, <1>4
  <1>10. Api!AuditedWasAccepted'
    <2> SUFFICES ASSUME NEW f \in audit'
                 PROVE  \E b \in answers' :
                          /\ b.id = f.request /\ b.status \in {202, 503}
                          /\ Api!SchemaAccepts(b.request) /\ Api!ThemeIsValid(b.request)
                          /\ env.database
      BY <1>1 DEF Api!AuditedWasAccepted
    <2>1. CASE f \in audit
      BY <2>1, <1>4 DEF Api!IndInv, Api!ApiIsSound, Api!AuditedWasAccepted
    <2>2. CASE f = e
      <3>1. a \in answers' /\ a.id = f.request /\ a.status \in {202, 503} /\ a.request = r
        BY <2>2, <1>2, <1>4, <1>5
      <3> QED BY <3>1, <1>1
    <2> QED BY <2>1, <2>2, <1>7
  <1>11. Api!AuthorityWasHeld' /\ Api!ForeignRequestsAreRefused'
    BY <1>1, <1>2, ServedAnswer
  <1> QED BY <1>3, <1>9, <1>10, <1>11 DEF Api!IndInv, Api!ApiIsSound

LEMMA ChangeMembershipInv ==
  ASSUME Api!ConstantsAssumed, Api!IndInv, Api!ChangeMembership
  PROVE  Api!IndInv'
  <1>1. /\ UNCHANGED <<env, active, granted, audit, answers, apiClock, requests, apiPc>>
        /\ Api!Noting(roles')
    BY DEF Api!ChangeMembership
  <1>2. roles' \in [People -> Api!MembershipRoles \cup {None}]
    BY DEF Api!ChangeMembership, Api!IndInv, Api!TypeOK, Api!MembershipRoles
  <1>3. ASSUME NEW w \in Workers
        PROVE  /\ apiJob'[w] \in Api!Jobs
               /\ apiJob'[w] \in
                    {apiJob[w],
                    [apiJob[w] EXCEPT !.roles = @ \cup {roles'[apiJob[w].request.user]}]}
               /\ apiPc[w] # "idle" /\ ~env.development /\ apiJob[w].request.user # None =>
                    apiJob'[w] = [apiJob[w] EXCEPT !.roles = @ \cup {roles'[apiJob[w].request.user]}]
    <2> DEFINE u == apiJob[w].request.user
               j == [apiJob[w] EXCEPT !.roles = @ \cup {roles'[u]}]
    <2>1. apiJob'[w] = IF apiPc[w] = "idle" \/ env.development THEN apiJob[w]
                    ELSE IF u = None THEN apiJob[w] ELSE j
      BY <1>1 DEF Api!Noting
    <2>2. apiJob[w] \in Api!Jobs
      BY DEF Api!IndInv, Api!TypeOK
    <2>3. CASE apiPc[w] # "idle" /\ ~env.development /\ u # None
      <3>1. u \in People
        BY <2>3 DEF Api!IndInv, Api!Handled, Api!ConstantsAssumed
      <3>2. roles'[u] \in Api!MembershipRoles \cup {None}
        BY <3>1, <1>2
      <3>3. j \in Api!Jobs
        BY <3>2, <2>2 DEF Api!Jobs
      <3> QED BY <2>1, <2>3, <3>3
    <2>4. CASE ~(apiPc[w] # "idle" /\ ~env.development /\ u # None)
      BY <2>1, <2>2, <2>4
    <2> QED BY <2>3, <2>4
  <1>4. Api!TypeOK'
    <2>1. apiJob' \in [Workers -> Api!Jobs]
      BY <1>1, <1>3 DEF Api!Noting
    <2> QED BY <1>1, <1>2, <2>1 DEF Api!IndInv, Api!TypeOK
  <1>5. ASSUME NEW w \in Workers, apiPc[w] # "idle" PROVE Api!Handled(w)'
    <2>1. /\ apiJob'[w].request = apiJob[w].request /\ apiJob'[w].role = apiJob[w].role
             /\ apiJob'[w].grants = apiJob[w].grants
          /\ apiJob'[w].seen = apiJob[w].seen /\ apiJob[w].roles \subseteq apiJob'[w].roles
          /\ ~env.development /\ apiJob[w].request.user # None
             => roles'[apiJob[w].request.user] \in apiJob'[w].roles
      <3>1. apiJob[w] \in Api!Jobs
        BY DEF Api!IndInv, Api!TypeOK
      <3>2. CASE apiJob'[w] = [apiJob[w] EXCEPT !.roles = @ \cup {roles'[apiJob[w].request.user]}]
        BY <3>1, <3>2 DEF Api!Jobs
      <3>3. CASE apiJob'[w] = apiJob[w] /\ ~(~env.development /\ apiJob[w].request.user # None)
        BY <3>3
      <3> QED BY <1>3, <1>5, <3>2, <3>3
    <2>2. Api!Handled(w)
      BY <1>5 DEF Api!IndInv
    <2>3. Api!SeesTheTables(w)'
      BY <1>1, <2>1, <2>2 DEF Api!Handled, Api!SeesTheTables, Api!GrantsOf
    <2>4. Api!TakesItsPath(w)' /\ Api!HasItsRole(w)' /\ Api!PassedTheSchema(w)'
      BY <1>1, <2>1, <2>2 DEF Api!Handled, Api!TakesItsPath, Api!HasItsRole, Api!PassedTheSchema
    <2>5. Api!PassedTheContext(w)'
      BY <1>1, <2>1, <2>2 DEF Api!Handled, Api!PassedTheContext
    <2>6. Api!PassedTheAuthorization(w)'
      BY <1>1, <2>1, <2>2 DEF Api!Handled, Api!PassedTheAuthorization, Api!Authorized,
         Api!JobContext
    <2> QED BY <2>1, <2>2, <2>3, <2>4, <2>5, <2>6 DEF Api!Handled
  <1>6. Api!ApiIsSound'
    BY <1>1 DEF Api!IndInv, Api!ApiIsSound, Api!AuthorityWasHeld, Api!AcceptedIsAudited,
       Api!AuditedWasAccepted, Api!ForeignRequestsAreRefused, Api!Served
  <1> QED BY <1>1, <1>4, <1>5, <1>6 DEF Api!IndInv

LEMMA OthersChangeInv ==
  ASSUME Api!ConstantsAssumed, Api!IndInv,
         Api!RevokeGrant \/ Api!DisableIdentity \/ Api!RevokeSession \/ Api!Tick
         \/ UNCHANGED Api!vars
  PROVE  Api!IndInv'
  <1>1. UNCHANGED <<env, roles, audit, answers, requests, apiPc, apiJob>> /\ apiClock' \in Nat
        /\ granted' \subseteq granted
    BY DEF Api!RevokeGrant, Api!DisableIdentity, Api!RevokeSession, Api!Tick, Api!vars, Api!tables,
       Api!IndInv, Api!TypeOK
  <1>2. Api!TypeOK'
    BY <1>1 DEF Api!IndInv, Api!TypeOK
  <1>3. ASSUME NEW w \in Workers, apiPc[w] # "idle" PROVE Api!Handled(w)'
    <2>1. Api!Handled(w)
      BY <1>3 DEF Api!IndInv
    <2>2. Api!SeesTheTables(w)'
      BY <1>1, <2>1 DEF Api!Handled, Api!SeesTheTables, Api!GrantsOf
    <2>3. Api!TakesItsPath(w)' /\ Api!HasItsRole(w)' /\ Api!PassedTheSchema(w)'
          /\ Api!PassedTheContext(w)'
      BY <1>1, <2>1 DEF Api!Handled, Api!TakesItsPath, Api!HasItsRole, Api!PassedTheSchema,
         Api!PassedTheContext
    <2>4. Api!PassedTheAuthorization(w)'
      BY <1>1, <2>1 DEF Api!Handled, Api!PassedTheAuthorization, Api!Authorized, Api!JobContext
    <2> QED BY <1>1, <2>1, <2>2, <2>3, <2>4 DEF Api!Handled
  <1>4. Api!ApiIsSound'
    BY <1>1 DEF Api!IndInv, Api!ApiIsSound, Api!AuthorityWasHeld, Api!AcceptedIsAudited,
       Api!AuditedWasAccepted, Api!ForeignRequestsAreRefused, Api!Served
  <1> QED BY <1>1, <1>2, <1>3, <1>4 DEF Api!IndInv

LEMMA ApiInitInv == Api!ConstantsAssumed /\ Api!Init => Api!IndInv
  <1> SUFFICES ASSUME Api!ConstantsAssumed, Api!Init PROVE Api!IndInv
    OBVIOUS
  <1>1. Api!TypeOK
    BY DEF Api!ConstantsAssumed, Api!Init, Api!TypeOK, Api!NoJob, Api!Jobs
  <1>2. Api!ApiIsSound
    BY DEF Api!Init, Api!ApiIsSound, Api!AuthorityWasHeld, Api!AcceptedIsAudited,
       Api!AuditedWasAccepted, Api!ForeignRequestsAreRefused, Api!Served
  <1> QED BY <1>1, <1>2 DEF Api!IndInv, Api!Init

\* The inductive invariant of the settings routes holds in every state.
THEOREM ApiInvariantHolds == Api!Spec => []Api!IndInv
  <1>1. Api!Init => Api!IndInv
    BY ApiInitInv, ApiConstants
  <1>2. Api!IndInv /\ [Api!Next]_Api!vars => Api!IndInv'
    <2> SUFFICES ASSUME Api!IndInv, [Api!Next]_Api!vars PROVE Api!IndInv'
      OBVIOUS
    <2>1. ASSUME NEW w \in Workers,
                 \/ Api!ReceiveRequest(w) \/ Api!CheckRequest(w) \/ Api!GetSession(w)
                 \/ Api!GetIdentity(w) \/ Api!ListMemberships(w) \/ Api!ListGrants(w)
                 \/ Api!VerifyCsrf(w) \/ Api!AuthorizeRead(w) \/ Api!AuthorizeWrite(w)
                 \/ Api!ParseBody(w) \/ Api!WriteAuditEvent(w)
          PROVE  Api!IndInv'
      BY <2>1, ApiConstants, ReceiveRequestInv, CheckRequestInv, LookUpInv, ListMembershipsInv, ListGrantsInv,
         AuthorizeReadInv, AuthorizeWriteInv, ParseBodyInv, WriteAuditEventInv
    <2>2. CASE Api!ChangeMembership
      BY <2>2, ApiConstants, ChangeMembershipInv
    <2>3. CASE Api!RevokeGrant \/ Api!DisableIdentity \/ Api!RevokeSession \/ Api!Tick
               \/ UNCHANGED Api!vars
      BY <2>3, ApiConstants, OthersChangeInv
    <2> QED BY <2>1, <2>2, <2>3 DEF Api!Next
  <1> QED BY <1>1, <1>2, PTL DEF Api!Spec

\* For any users, grants, requests, environments and changes of the tables: a
\* request is served only to someone who held the role and the grants for it while
\* it was handled, and the audit table has what was accepted, and nothing else.
THEOREM ApiSound == Api!Spec => []ApiIsSound
  <1>1. Api!IndInv => ApiIsSound
    BY DEF Api!IndInv, ApiIsSound
  <1> QED BY <1>1, ApiInvariantHolds, PTL
=============================================================================
